---- MODULE Spec2Model ----
(***************************************************************************)
(* lighterceptor: the recursive resource-discovery engine                  *)
(* (Lighterceptor.run and the module-level helpers it closes over).        *)
(*                                                                         *)
(* Texts and URLs are strings; the string helpers below are the            *)
(* JavaScript String methods the source calls, computed character by       *)
(* character.  An operator binds the values of its arguments before it    *)
(* uses them: CHOOSE v_ \in {(e) : x \in {x_}} : TRUE is e with x the value *)
(* of the argument x_.                                                     *)
(***************************************************************************)
EXTENDS Integers, Sequences, FiniteSets, TLC

(***************************************************************************)
(* JavaScript values                                                       *)
(***************************************************************************)
\* JavaScript's undefined: an absent kind hint, content-type or base URL.
Undefined == "undefined"

\* JavaScript's null, the value fetchResourceContent resolves to on failure.
Null == [isNull |-> TRUE]

\* A promise that has not settled yet.
Unsettled == [isPending |-> TRUE]

\* a ?? b
OrElse(a, b) == IF a = Undefined THEN b ELSE a

(***************************************************************************)
(* String methods                                                          *)
(***************************************************************************)
\* s.charAt(i): the empty string outside the string.
CharAt(s, i) == IF i >= 1 /\ i <= Len(s) THEN SubSeq(s, i, i) ELSE ""

UpperChars == "ABCDEFGHIJKLMNOPQRSTUVWXYZ"

LowerChars == "abcdefghijklmnopqrstuvwxyz"

DigitChars == "0123456789"

\* \s of a JavaScript regular expression and of trim(), on the characters
\* the texts of this model use.
IsSpace(c) == c \in {" ", "\t", "\n", "\r"}

IsCharOf(c, chars) == \E i \in 1..Len(chars) : SubSeq(chars, i, i) = c

IsAlpha(c) == IsCharOf(c, UpperChars \o LowerChars)

\* \w of a JavaScript regular expression.
IsWordChar(c) == IsCharOf(c, UpperChars \o LowerChars \o DigitChars \o "_")

\* c is one character or the empty string.
LowerChar(c) ==
    IF IsCharOf(c, UpperChars)
    THEN CharAt(LowerChars, CHOOSE i \in 1..Len(UpperChars) : SubSeq(UpperChars, i, i) = c)
    ELSE c

RECURSIVE toLowerCase(_)
toLowerCase(s_) ==
    CHOOSE v_ \in {(
    IF Len(s) <= 1 THEN LowerChar(s)
    ELSE toLowerCase(SubSeq(s, 1, Len(s) \div 2))
         \o toLowerCase(SubSeq(s, Len(s) \div 2 + 1, Len(s)))
    ) : s \in {s_}} : TRUE

startsWith(s_, p_) ==
    CHOOSE v_ \in {(
    Len(s) >= Len(p) /\ SubSeq(s, 1, Len(p)) = p
    ) : s \in {s_}, p \in {p_}} : TRUE

endsWith(s_, p_) ==
    CHOOSE v_ \in {(
    Len(s) >= Len(p) /\ SubSeq(s, Len(s) - Len(p) + 1, Len(s)) = p
    ) : s \in {s_}, p \in {p_}} : TRUE

\* Whether p occurs in s at position i.
OccursAt(s_, p_, i_) ==
    CHOOSE v_ \in {(
    i >= 1 /\ i + Len(p) - 1 <= Len(s) /\ SubSeq(s, i, i + Len(p) - 1) = p
    ) : s \in {s_}, p \in {p_}, i \in {i_}} : TRUE

\* Whether p, in lower case, occurs in s at position i in any case.
OccursAtIgnoreCase(s_, p_, i_) ==
    CHOOSE v_ \in {(
    i >= 1 /\ i + Len(p) - 1 <= Len(s) /\ toLowerCase(SubSeq(s, i, i + Len(p) - 1)) = p
    ) : s \in {s_}, p \in {p_}, i \in {i_}} : TRUE

includes(s_, p_) ==
    CHOOSE v_ \in {(
    \E i \in 1..(Len(s) + 1) : OccursAt(s, p, i)
    ) : s \in {s_}, p \in {p_}} : TRUE

\* The least of a set of positions, none when the set is empty.
Least(positions_, none_) ==
    CHOOSE v_ \in {(
    IF positions = {} THEN none
    ELSE CHOOSE i \in positions : \A j \in positions : i <= j
    ) : positions \in {positions_}, none \in {none_}} : TRUE

Greatest(positions_, none_) ==
    CHOOSE v_ \in {(
    IF positions = {} THEN none
    ELSE CHOOSE i \in positions : \A j \in positions : i >= j
    ) : positions \in {positions_}, none \in {none_}} : TRUE

\* The first position >= from where p occurs in s, 0 when there is none.
indexOf(s_, p_, from_) ==
    CHOOSE v_ \in {(
    Least({i \in from..(Len(s) + 1) : OccursAt(s, p, i)}, 0)
    ) : s \in {s_}, p \in {p_}, from \in {from_}} : TRUE

lastIndexOf(s_, p_) ==
    CHOOSE v_ \in {(
    Greatest({i \in 1..(Len(s) + 1) : OccursAt(s, p, i)}, 0)
    ) : s \in {s_}, p \in {p_}} : TRUE

\* The position of the first non-space character of s at or after i.
SkipSpaces(s_, i_) ==
    CHOOSE v_ \in {(
    Least({j \in i..Len(s) : ~IsSpace(SubSeq(s, j, j))}, Len(s) + 1)
    ) : s \in {s_}, i \in {i_}} : TRUE

trimStart(s_) ==
    CHOOSE v_ \in {(
    SubSeq(s, SkipSpaces(s, 1), Len(s))
    ) : s \in {s_}} : TRUE

trimEnd(s_) ==
    CHOOSE v_ \in {(
    SubSeq(s, 1, Greatest({j \in 1..Len(s) : ~IsSpace(SubSeq(s, j, j))}, 0))
    ) : s \in {s_}} : TRUE

trim(s_) ==
    CHOOSE v_ \in {(
    trimEnd(trimStart(s))
    ) : s \in {s_}} : TRUE

\* s up to position i - 1, all of s when i is 0.
Prefix(s_, i_) ==
    CHOOSE v_ \in {(
    IF i = 0 THEN s ELSE SubSeq(s, 1, i - 1)
    ) : s \in {s_}, i \in {i_}} : TRUE

\* s from position i + 1 on, all of s when i is 0.
Suffix(s_, i_) ==
    CHOOSE v_ \in {(
    IF i = 0 THEN s ELSE SubSeq(s, i + 1, Len(s))
    ) : s \in {s_}, i \in {i_}} : TRUE

\* s.split(sep)[0], for a one-character separator.
SplitFirst(s_, sep_) ==
    CHOOSE v_ \in {(
    Prefix(s, indexOf(s, sep, 1))
    ) : s \in {s_}, sep \in {sep_}} : TRUE

\* s.split(sep).pop(), for a one-character separator.
SplitLast(s_, sep_) ==
    CHOOSE v_ \in {(
    Suffix(s, lastIndexOf(s, sep))
    ) : s \in {s_}, sep \in {sep_}} : TRUE

\* s.split(sep), for a one-character separator: the pieces between the
\* positions of sep.
RECURSIVE SplitAt(_, _, _)
SplitAt(s_, sep_, from_) ==
    CHOOSE v_ \in {(
    IF indexOf(s, sep, from) = 0 THEN <<SubSeq(s, from, Len(s))>>
    ELSE <<SubSeq(s, from, indexOf(s, sep, from) - 1)>>
         \o SplitAt(s, sep, indexOf(s, sep, from) + 1)
    ) : s \in {s_}, sep \in {sep_}, from \in {from_}} : TRUE

split(s_, sep_) ==
    CHOOSE v_ \in {(
    SplitAt(s, sep, 1)
    ) : s \in {s_}, sep \in {sep_}} : TRUE

\* s.split(/\s+/)[0], for s without leading white space: s up to its first
\* white space.
FirstToken(s_) ==
    CHOOSE v_ \in {(
    SubSeq(s, 1, Least({j \in 1..Len(s) : IsSpace(SubSeq(s, j, j))}, Len(s) + 1) - 1)
    ) : s \in {s_}} : TRUE

\* The non-empty strings of a sequence, in order: filter(Boolean).
SelectNonEmpty(seq_) ==
    CHOOSE v_ \in {(
    SelectSeq(seq, LAMBDA x : x # "")
    ) : seq \in {seq_}} : TRUE

(***************************************************************************)
(* new URL(url, base): the WHATWG URL parser on the URL shapes that reach   *)
(* it here (scheme, authority, path with dot segments, query, fragment).   *)
(* A result is [ok, href]; ok = FALSE is the TypeError the constructor     *)
(* throws.                                                                 *)
(***************************************************************************)
UrlFailure == [ok |-> FALSE, href |-> ""]

UrlOk(href) == [ok |-> TRUE, href |-> href]

IsSchemeChar(c) == IsCharOf(c, UpperChars \o LowerChars \o DigitChars \o "+-.")

\* i is the position of the first colon of s, 0 when s has none: i when
\* what precedes the colon is a scheme, else 0.
SchemeEndAt(s_, i_) ==
    CHOOSE v_ \in {(
    IF i > 1 /\ IsAlpha(CharAt(s, 1)) /\ \A j \in 2..(i - 1) : IsSchemeChar(CharAt(s, j))
    THEN i
    ELSE 0
    ) : s \in {s_}, i \in {i_}} : TRUE

\* The position of the colon that ends the scheme of s, 0 when s has none.
SchemeEnd(s_) ==
    CHOOSE v_ \in {(
    SchemeEndAt(s, indexOf(s, ":", 1))
    ) : s \in {s_}} : TRUE

IsSpecialScheme(scheme) == scheme \in {"http:", "https:", "ftp:", "ws:", "wss:", "file:"}

\* The first position >= from of a character of stops in s, Len(s) + 1 when
\* there is none.
FirstOf(s_, stops_, from_) ==
    CHOOSE v_ \in {(
    Least({i \in from..Len(s) : SubSeq(s, i, i) \in stops}, Len(s) + 1)
    ) : s \in {s_}, stops \in {stops_}, from \in {from_}} : TRUE

\* s without its leading slashes.
StripSlashes(s_) ==
    CHOOSE v_ \in {(
    SubSeq(s, Least({j \in 1..Len(s) : SubSeq(s, j, j) # "/"}, Len(s) + 1), Len(s))
    ) : s \in {s_}} : TRUE

\* out without its last segment.
Pop(out_) ==
    CHOOSE v_ \in {(
    IF Len(out) > 0 THEN SubSeq(out, 1, Len(out) - 1) ELSE out
    ) : out \in {out_}} : TRUE

\* out, closed by an empty segment when the path ends in a dot segment.
Closed(out_, last_) ==
    CHOOSE v_ \in {(
    IF last THEN Append(out, "") ELSE out
    ) : out \in {out_}, last \in {last_}} : TRUE

\* The segments of a path with "." and ".." segments resolved.
RECURSIVE RemoveDotSegments(_, _)
RemoveDotSegments(segs_, out_) ==
    CHOOSE v_ \in {(
    IF segs = <<>> THEN out
    ELSE IF Head(segs) = "."
    THEN RemoveDotSegments(Tail(segs), Closed(out, Len(segs) = 1))
    ELSE IF Head(segs) = ".."
    THEN RemoveDotSegments(Tail(segs), Closed(Pop(out), Len(segs) = 1))
    ELSE RemoveDotSegments(Tail(segs), Append(out, Head(segs)))
    ) : segs \in {segs_}, out \in {out_}} : TRUE

RECURSIVE JoinPath(_)
JoinPath(segs_) ==
    CHOOSE v_ \in {(
    IF segs = <<>> THEN "" ELSE "/" \o Head(segs) \o JoinPath(Tail(segs))
    ) : segs \in {segs_}} : TRUE

\* path with or without its leading "/".
NormalizePath(path_) ==
    CHOOSE v_ \in {(
    JoinPath(RemoveDotSegments(
        split(SubSeq(path, IF startsWith(path, "/") THEN 2 ELSE 1, Len(path)), "/"), <<>>))
    ) : path \in {path_}} : TRUE

\* The tail of a hierarchical URL cut at position q, where its query or
\* fragment starts: the path normalized, the rest kept as written.
NormalizeTailAt(tail_, q_) ==
    CHOOSE v_ \in {(
    NormalizePath(SubSeq(tail, 1, q - 1)) \o SubSeq(tail, q, Len(tail))
    ) : tail \in {tail_}, q \in {q_}} : TRUE

NormalizeTail(tail_) ==
    CHOOSE v_ \in {(
    NormalizeTailAt(tail, FirstOf(tail, {"?", "#"}, 1))
    ) : tail \in {tail_}} : TRUE

\* A special URL from its scheme and what follows the slashes, the host
\* ending before position a.
SerializeHost(scheme_, auth_, a_) ==
    CHOOSE v_ \in {(
    IF a = 1 /\ scheme # "file:"
    THEN UrlFailure
    ELSE UrlOk(scheme \o "//" \o toLowerCase(SubSeq(auth, 1, a - 1))
               \o NormalizeTail(SubSeq(auth, a, Len(auth))))
    ) : scheme \in {scheme_}, auth \in {auth_}, a \in {a_}} : TRUE

SerializeSpecial(scheme_, auth_) ==
    CHOOSE v_ \in {(
    SerializeHost(scheme, auth, FirstOf(auth, {"/", "?", "#"}, 1))
    ) : scheme \in {scheme_}, auth \in {auth_}} : TRUE

Serialize(scheme_, rest_) ==
    CHOOSE v_ \in {(
    IF IsSpecialScheme(scheme)
    THEN SerializeSpecial(scheme, StripSlashes(rest))
    ELSE UrlOk(scheme \o rest)
    ) : scheme \in {scheme_}, rest \in {rest_}} : TRUE

\* s has a scheme that ends at position e.
ParseAbsoluteAt(s_, e_) ==
    CHOOSE v_ \in {(
    Serialize(toLowerCase(SubSeq(s, 1, e)), SubSeq(s, e + 1, Len(s)))
    ) : s \in {s_}, e \in {e_}} : TRUE

ParseAbsolute(s_) ==
    CHOOSE v_ \in {(
    ParseAbsoluteAt(s, SchemeEnd(s))
    ) : s \in {s_}} : TRUE

RECURSIVE URLParse(_, _)

\* s relative to base, a serialized special URL whose path starts at
\* position p, whose query or fragment starts at q and whose fragment
\* starts at f.
ParseRelativeAt(s_, base_, p_, q_, f_) ==
    CHOOSE v_ \in {(
    IF startsWith(s, "//") THEN URLParse(SubSeq(base, 1, indexOf(base, ":", 1)) \o s, Undefined)
    ELSE IF startsWith(s, "?") THEN UrlOk(SubSeq(base, 1, q - 1) \o s)
    ELSE IF startsWith(s, "#") THEN UrlOk(SubSeq(base, 1, f - 1) \o s)
    ELSE IF Len(s) = 0 THEN UrlOk(SubSeq(base, 1, f - 1))
    ELSE UrlOk(SubSeq(base, 1, p - 1)
               \o NormalizeTail(IF startsWith(s, "/") THEN s
                                ELSE SubSeq(base, p, lastIndexOf(SubSeq(base, 1, q - 1), "/"))
                                     \o s))
    ) : s \in {s_}, base \in {base_}, p \in {p_}, q \in {q_}, f \in {f_}} : TRUE

ParseRelativeFrom(s_, base_, p_) ==
    CHOOSE v_ \in {(
    ParseRelativeAt(s, base, p, FirstOf(base, {"?", "#"}, p), FirstOf(base, {"#"}, p))
    ) : s \in {s_}, base \in {base_}, p \in {p_}} : TRUE

\* base is a serialized URL with a special scheme: scheme//host/path?query#fragment.
ParseRelative(s_, base_) ==
    CHOOSE v_ \in {(
    ParseRelativeFrom(s, base, FirstOf(base, {"/", "?", "#"}, indexOf(base, ":", 1) + 3))
    ) : s \in {s_}, base \in {base_}} : TRUE

\* s, without a scheme, against the parsed base b.
ParseAgainst(s_, b_) ==
    CHOOSE v_ \in {(
    IF ~b.ok THEN UrlFailure
    ELSE IF ~IsSpecialScheme(SubSeq(b.href, 1, indexOf(b.href, ":", 1)))
    THEN (IF startsWith(s, "#") /\ ~includes(b.href, "#")
          THEN UrlOk(b.href \o s)
          ELSE UrlFailure)
    ELSE ParseRelative(s, b.href)
    ) : s \in {s_}, b \in {b_}} : TRUE

\* url, trimmed, against base.
URLParseTrimmed(s_, base_) ==
    CHOOSE v_ \in {(
    IF SchemeEnd(s) > 0 THEN ParseAbsolute(s)
    ELSE IF base = Undefined THEN UrlFailure
    ELSE ParseAgainst(s, URLParse(base, Undefined))
    ) : s \in {s_}, base \in {base_}} : TRUE

\* new URL(url, base).toString(), base = Undefined for new URL(url).
URLParse(url_, base_) ==
    CHOOSE v_ \in {(
    URLParseTrimmed(trim(url), base)
    ) : url \in {url_}, base \in {base_}} : TRUE

(***************************************************************************)
(* Module-level helpers of the engine                                      *)
(***************************************************************************)
\* The href of a parsed URL, url itself when the constructor threw.
HrefOr(r_, url_) ==
    CHOOSE v_ \in {(
    IF r.ok THEN r.href ELSE url
    ) : r \in {r_}, url \in {url_}} : TRUE

\* Undefined when url is empty, else the resolved URL, or url itself when
\* resolution throws.
resolveUrl(baseUrl_, url_) ==
    CHOOSE v_ \in {(
    IF url = "" THEN Undefined
    ELSE HrefOr(URLParse(url, IF baseUrl # Undefined /\ baseUrl # "" THEN baseUrl ELSE Undefined),
                url)
    ) : baseUrl \in {baseUrl_}, url \in {url_}} : TRUE

SkippablePrefix(lowered_) ==
    CHOOSE v_ \in {(
    \/ startsWith(lowered, "data:")
    \/ startsWith(lowered, "javascript:")
    \/ startsWith(lowered, "about:")
    ) : lowered \in {lowered_}} : TRUE

isSkippableUrl(url_) ==
    CHOOSE v_ \in {(
    SkippablePrefix(toLowerCase(url))
    ) : url \in {url_}} : TRUE

KindOfExtension(extension_) ==
    CHOOSE v_ \in {(
    IF extension = "" THEN Undefined
    ELSE IF extension = "html" \/ extension = "htm" THEN "html"
    ELSE IF extension = "css" THEN "css"
    ELSE IF extension = "js" \/ extension = "mjs" \/ extension = "cjs" THEN "js"
    ELSE Undefined
    ) : extension \in {extension_}} : TRUE

inferResourceKindFromUrl(url_) ==
    CHOOSE v_ \in {(
    KindOfExtension(toLowerCase(SplitLast(SplitFirst(SplitFirst(url, "?"), "#"), ".")))
    ) : url \in {url_}} : TRUE

\* w occurs at i after a word boundary: /\bw/.
WordStartsAt(s_, w_, i_) ==
    CHOOSE v_ \in {(
    OccursAt(s, w, i) /\ (i = 1 \/ ~IsWordChar(CharAt(s, i - 1)))
    ) : s \in {s_}, w \in {w_}, i \in {i_}} : TRUE

\* /\bw\b/.test(s)
TestWord(s_, w_) ==
    CHOOSE v_ \in {(
    \E i \in 1..Len(s) :
        /\ WordStartsAt(s, w, i)
        /\ (i + Len(w) > Len(s) \/ ~IsWordChar(CharAt(s, i + Len(w))))
    ) : s \in {s_}, w \in {w_}} : TRUE

\* /\bw\s*\(/.test(s)
TestCall(s_, w_) ==
    CHOOSE v_ \in {(
    \E i \in 1..Len(s) :
        /\ WordStartsAt(s, w, i)
        /\ CharAt(s, SkipSpaces(s, i + Len(w))) = "("
    ) : s \in {s_}, w \in {w_}} : TRUE

looksLikeJavaScript(text_) ==
    CHOOSE v_ \in {(
    \/ \E w \in {"import", "export", "const", "let", "var", "function", "XMLHttpRequest"} :
           TestWord(text, w)
    \/ \E w \in {"fetch", "importScripts"} : TestCall(text, w)
    ) : text \in {text_}} : TRUE

\* The kind the text itself suggests.
SniffKind(trimmed_) ==
    CHOOSE v_ \in {(
    IF startsWith(trimmed, "<!doctype") \/ startsWith(trimmed, "<html") THEN "html"
    ELSE IF startsWith(trimmed, "<") THEN "html"
    ELSE IF startsWith(trimmed, "@") \/ includes(trimmed, "url(") THEN "css"
    ELSE IF looksLikeJavaScript(trimmed) THEN "js"
    ELSE Undefined
    ) : trimmed \in {trimmed_}} : TRUE

DetectFrom(normalized_, inferred_, text_) ==
    CHOOSE v_ \in {(
    IF includes(normalized, "text/html") THEN "html"
    ELSE IF includes(normalized, "text/css") THEN "css"
    ELSE IF includes(normalized, "javascript") THEN "js"
    ELSE IF inferred # Undefined THEN inferred
    ELSE SniffKind(trimStart(text))
    ) : normalized \in {normalized_}, inferred \in {inferred_}, text \in {text_}} : TRUE

detectResourceKind(url_, contentType_, text_) ==
    CHOOSE v_ \in {(
    DetectFrom(IF contentType = Undefined THEN "" ELSE toLowerCase(contentType),
               inferResourceKindFromUrl(url), text)
    ) : url \in {url_}, contentType \in {contentType_}, text \in {text_}} : TRUE

InputKind(trimmed_) ==
    CHOOSE v_ \in {(
    IF startsWith(trimmed, "<") THEN "html"
    ELSE IF startsWith(trimmed, "@") \/ includes(trimmed, "url(") THEN "css"
    ELSE "js"
    ) : trimmed \in {trimmed_}} : TRUE

detectInputKind(input_) ==
    CHOOSE v_ \in {(
    InputKind(trimStart(input))
    ) : input \in {input_}} : TRUE

RECURSIVE MapFirstToken(_)
MapFirstToken(candidates_) ==
    CHOOSE v_ \in {(
    IF candidates = <<>> THEN <<>>
    ELSE <<FirstToken(trim(Head(candidates)))>> \o MapFirstToken(Tail(candidates))
    ) : candidates \in {candidates_}} : TRUE

parseSrcsetUrls(value_) ==
    CHOOSE v_ \in {(
    SelectNonEmpty(MapFirstToken(split(value, ",")))
    ) : value \in {value_}} : TRUE

InterceptedRel(normalized_) ==
    CHOOSE v_ \in {(
    \/ includes(normalized, "preload")
    \/ includes(normalized, "prefetch")
    \/ includes(normalized, "stylesheet")
    \/ includes(normalized, "icon")
    ) : normalized \in {normalized_}} : TRUE

shouldInterceptLinkRel(rel_) ==
    CHOOSE v_ \in {(
    InterceptedRel(toLowerCase(rel))
    ) : rel \in {rel_}} : TRUE

(***************************************************************************)
(* Dependency extractors: each regular expression of the source is a       *)
(* matcher M(s, i) that tries the pattern at position i of s and yields    *)
(* [ok, group, end], end being the position after the match; ExecAll is    *)
(* the `while ((match = pattern.exec(text)) !== null)` loop of a /g        *)
(* pattern.                                                                *)
(***************************************************************************)
NoMatch == [ok |-> FALSE, group |-> "", end |-> 0]

Match(group, end) == [ok |-> TRUE, group |-> group, end |-> end]

IsQuote(c) == c \in {"'", "\""}

\* What . of a regular expression does not match.
IsLineTerminator(c) == c \in {"\n", "\r"}

\* The captured groups of the successive matches of M in s from position
\* from on, in order: i is the position of the first match at or after
\* lastIndex (0 when there is none) and m that match.
ExecAll(s_, from_, M(_, _)) ==
    CHOOSE v_ \in {(
    LET RECURSIVE Exec(_)
        Exec(lastIndex) ==
            CHOOSE w_ \in {(
                IF i = 0 THEN <<>>
                ELSE CHOOSE x_ \in {<<m.group>> \o Exec(m.end) : m \in {M(s, i)}} : TRUE
            ) : i \in {Least({j \in lastIndex..Len(s) : M(s, j).ok}, 0)}} : TRUE
    IN Exec(from)
    ) : s \in {s_}, from \in {from_}} : TRUE

\* The length of the longest run of characters from position i on that are
\* neither quotes nor, when strict, ")" or white space.
RECURSIVE RunLength(_, _, _)
RunLength(s_, i_, strict_) ==
    CHOOSE v_ \in {(
    IF i > Len(s) \/ IsQuote(CharAt(s, i))
       \/ (strict /\ (CharAt(s, i) = ")" \/ IsSpace(CharAt(s, i))))
    THEN 0
    ELSE 1 + RunLength(s, i + 1, strict)
    ) : s \in {s_}, i \in {i_}, strict \in {strict_}} : TRUE

\* /url\(\s*(['"]?)(.*?)\1\s*\)/gi at position i.  \s* and the optional
\* quote are greedy and (.*?) is lazy: of the ways to match, the one with
\* the most leading spaces, then with the quote taken, then with the
\* shortest group is the match.
UrlPatternAt(s_, i_) ==
    CHOOSE v_ \in {(
    IF ~OccursAtIgnoreCase(s, "url(", i) THEN NoMatch
    ELSE LET a == i + 4
             maxws == SkipSpaces(s, a) - a
             Start(k, quoted) == a + k + (IF quoted THEN 1 ELSE 0)
             Quote(k, quoted) == IF quoted THEN CharAt(s, a + k) ELSE ""
             Close(k, quoted, n) == SkipSpaces(s, Start(k, quoted) + n + Len(Quote(k, quoted)))
             Works(k, quoted, n) ==
                 /\ quoted => IsQuote(CharAt(s, a + k))
                 /\ Start(k, quoted) + n - 1 <= Len(s)
                 /\ \A j \in Start(k, quoted)..(Start(k, quoted) + n - 1) :
                        ~IsLineTerminator(CharAt(s, j))
                 /\ OccursAt(s, Quote(k, quoted), Start(k, quoted) + n)
                 /\ CharAt(s, Close(k, quoted, n)) = ")"
             Before(v, w) ==
                 \/ v[1] > w[1]
                 \/ v[1] = w[1] /\ v[2] /\ ~w[2]
                 \/ v[1] = w[1] /\ v[2] = w[2] /\ v[3] <= w[3]
             MatchOf(w) ==
                 Match(SubSeq(s, Start(w[1], w[2]), Start(w[1], w[2]) + w[3] - 1),
                       Close(w[1], w[2], w[3]) + 1)
             First(ways) ==
                 IF ways = {} THEN NoMatch
                 ELSE MatchOf(CHOOSE v \in ways : \A u \in ways : Before(v, u))
         IN CHOOSE m \in {First(ways) : ways \in
                {{w \in (0..maxws) \X BOOLEAN \X (0..Len(s)) : Works(w[1], w[2], w[3])}}} :
                TRUE
    ) : s \in {s_}, i \in {i_}} : TRUE

\* /@import\s+(?:url\(\s*)?(['"]?)([^'")\s]+)\1\s*\)?/gi at position i.
\* Every quantifier is greedy.  Fewer spaces than all of them leave a space
\* where ([^'")\s]+) must start, and a shorter group than the whole run
\* cannot be followed by the quote, so the ways to match differ only in
\* whether url( and the quote are taken, tried in that order.
ImportPatternAt(s_, i_) ==
    CHOOSE v_ \in {(
    IF ~OccursAtIgnoreCase(s, "@import", i) THEN NoMatch
    ELSE LET a == i + 7
             b == SkipSpaces(s, a)
             After(wrapped) == IF wrapped THEN SkipSpaces(s, b + 4) ELSE b
             Start(wrapped, quoted) == After(wrapped) + (IF quoted THEN 1 ELSE 0)
             Quote(wrapped, quoted) == IF quoted THEN CharAt(s, After(wrapped)) ELSE ""
             Run(wrapped, quoted) == RunLength(s, Start(wrapped, quoted), TRUE)
             Works(wrapped, quoted) ==
                 /\ b > a
                 /\ wrapped => OccursAtIgnoreCase(s, "url(", b)
                 /\ quoted => IsQuote(CharAt(s, After(wrapped)))
                 /\ Run(wrapped, quoted) >= 1
                 /\ OccursAt(s, Quote(wrapped, quoted),
                             Start(wrapped, quoted) + Run(wrapped, quoted))
             Before(v, w) ==
                 \/ v[1] /\ ~w[1]
                 \/ v[1] = w[1] /\ (v[2] \/ ~w[2])
             End(c) == IF CharAt(s, c) = ")" THEN c + 1 ELSE c
             MatchOf(w) ==
                 Match(SubSeq(s, Start(w[1], w[2]), Start(w[1], w[2]) + Run(w[1], w[2]) - 1),
                       End(SkipSpaces(s, Start(w[1], w[2]) + Run(w[1], w[2])
                                         + Len(Quote(w[1], w[2])))))
             First(ways) ==
                 IF ways = {} THEN NoMatch
                 ELSE MatchOf(CHOOSE v \in ways : \A u \in ways : Before(v, u))
         IN CHOOSE m \in {First(ways) : ways \in
                {{w \in BOOLEAN \X BOOLEAN : Works(w[1], w[2])}}} : TRUE
    ) : s \in {s_}, i \in {i_}} : TRUE

RECURSIVE TrimNonEmpty(_)
TrimNonEmpty(groups_) ==
    CHOOSE v_ \in {(
    IF groups = <<>> THEN <<>>
    ELSE (IF Len(trim(Head(groups))) > 0 THEN <<trim(Head(groups))>> ELSE <<>>)
         \o TrimNonEmpty(Tail(groups))
    ) : groups \in {groups_}} : TRUE

extractCssDependencies(cssText_) ==
    CHOOSE v_ \in {(
    [imports |-> TrimNonEmpty(ExecAll(cssText, 1, ImportPatternAt)),
     urls |-> TrimNonEmpty(ExecAll(cssText, 1, UrlPatternAt))]
    ) : cssText \in {cssText_}} : TRUE

\* ['"]([^'"]+)['"] at position i: a quote, a non-empty run without quotes,
\* a quote (not necessarily the same one).
QuotedAt(s_, i_) ==
    CHOOSE v_ \in {(
    LET n == RunLength(s, i + 1, FALSE)
    IN IF IsQuote(CharAt(s, i)) /\ n >= 1 /\ IsQuote(CharAt(s, i + 1 + n))
       THEN Match(SubSeq(s, i + 1, i + n), i + n + 2)
       ELSE NoMatch
    ) : s \in {s_}, i \in {i_}} : TRUE

\* /\bimport\s+(?:[^'"]+from\s+)?['"]([^'"]+)['"]/g at position i.  The
\* quote that opens the group is the first quote after import; what lies
\* between is \s+ alone, or \s+, a non-empty run and from\s+.
JsImportPatternAt(s_, i_) ==
    CHOOSE v_ \in {(
    IF ~WordStartsAt(s, "import", i) THEN NoMatch
    ELSE LET a == i + 6
             q == a + RunLength(s, a, FALSE)
             seg == SubSeq(s, a, q - 1)
             body == trimEnd(seg)
             bare == Len(seg) >= 1 /\ Len(body) = 0
             from == /\ Len(seg) > Len(body)
                     /\ endsWith(body, "from")
                     /\ Len(body) >= 6
                     /\ IsSpace(Head(seg))
         IN IF bare \/ from THEN QuotedAt(s, q) ELSE NoMatch
    ) : s \in {s_}, i \in {i_}} : TRUE

\* /\bname\(\s*['"]([^'"]+)['"]/ at position i, followed by \s*\) when
\* closed.
CallPatternAt(s_, i_, name_, closed_) ==
    CHOOSE v_ \in {(
    IF ~WordStartsAt(s, name \o "(", i) THEN NoMatch
    ELSE LET m == QuotedAt(s, SkipSpaces(s, i + Len(name) + 1))
             c == SkipSpaces(s, m.end)
         IN IF ~m.ok THEN NoMatch
            ELSE IF ~closed THEN m
            ELSE IF CharAt(s, c) = ")" THEN Match(m.group, c + 1)
            ELSE NoMatch
    ) : s \in {s_}, i \in {i_}, name \in {name_}, closed \in {closed_}} : TRUE

DynamicImportPatternAt(s_, i_) ==
    CHOOSE v_ \in {(
    CallPatternAt(s, i, "import", TRUE)
    ) : s \in {s_}, i \in {i_}} : TRUE

ImportScriptsPatternAt(s_, i_) ==
    CHOOSE v_ \in {(
    CallPatternAt(s, i, "importScripts", TRUE)
    ) : s \in {s_}, i \in {i_}} : TRUE

FetchPatternAt(s_, i_) ==
    CHOOSE v_ \in {(
    CallPatternAt(s, i, "fetch", FALSE)
    ) : s \in {s_}, i \in {i_}} : TRUE

\* /\.open\(\s*['"][^'"]+['"]\s*,\s*['"]([^'"]+)['"]/g at position i.
XhrPatternAt(s_, i_) ==
    CHOOSE v_ \in {(
    IF ~OccursAt(s, ".open(", i) THEN NoMatch
    ELSE LET method == QuotedAt(s, SkipSpaces(s, i + 6))
             comma == SkipSpaces(s, method.end)
         IN IF method.ok /\ CharAt(s, comma) = ","
            THEN QuotedAt(s, SkipSpaces(s, comma + 1))
            ELSE NoMatch
    ) : s \in {s_}, i \in {i_}} : TRUE

\* [...set] of a Set the strings of seq were added to in order.
RECURSIVE SetOrder(_, _)
SetOrder(seq_, seen_) ==
    CHOOSE v_ \in {(
    IF seq = <<>> THEN <<>>
    ELSE IF Head(seq) \in seen THEN SetOrder(Tail(seq), seen)
    ELSE <<Head(seq)>> \o SetOrder(Tail(seq), seen \cup {Head(seq)})
    ) : seq \in {seq_}, seen \in {seen_}} : TRUE

extractJsDependencies(jsText_) ==
    CHOOSE v_ \in {(
    [imports |-> SetOrder(ExecAll(jsText, 1, JsImportPatternAt)
                          \o ExecAll(jsText, 1, DynamicImportPatternAt), {}),
     importScripts |-> SetOrder(ExecAll(jsText, 1, ImportScriptsPatternAt), {}),
     fetches |-> SetOrder(ExecAll(jsText, 1, FetchPatternAt), {}),
     xhrs |-> SetOrder(ExecAll(jsText, 1, XhrPatternAt), {})]
    ) : jsText \in {jsText_}} : TRUE

(***************************************************************************)
(* The world of a run: the texts given to the engine, what the retrieval   *)
(* primitive (the global fetch) answers, and what the rendering            *)
(* environment builds from a markup text.                                  *)
(***************************************************************************)
Element(tag, attrs, text) == [tag |-> tag, attrs |-> attrs, text |-> text]

\* No initiating element: options.element is undefined.
NoElement == Element("", <<>>, "")

\* One request the rendering environment reports to the interception
\* callback: interceptor(url, {referrer, source, element}).
Call(url, referrer, source, element) ==
    [url |-> url, referrer |-> referrer, source |-> source, element |-> element]

\* The document URL of an environment created without a url option.
AboutBlank == "about:blank"

\* InterceptingResourceLoader.fetch: a load the environment starts for an
\* element is reported with the options of the environment and the source
\* resource.
ResourceLoaderFetch(url_, referrer_, element_) ==
    CHOOSE v_ \in {(
    Call(url, referrer, "resource", element)
    ) : url \in {url_}, referrer \in {referrer_}, element \in {element_}} : TRUE

\* interceptImgSrc: an assignment of the src of an image by a script is
\* reported with the image and the document URL, and with no source.
interceptImgSrc(url_, element_, documentUrl_) ==
    CHOOSE v_ \in {(
    Call(url, documentUrl, Undefined, element)
    ) : url \in {url_}, element \in {element_}, documentUrl \in {documentUrl_}} : TRUE

XhrScript ==
    "setTimeout(function(){var x=new XMLHttpRequest();x.open(\"GET\",\"/api\");x.send()},60)"

FetchScript ==
    "new Image().src=\"http://h/i.png\";setTimeout(function(){fetch(\"http://h/api\")},60)"

HtmlTop ==
    "<title>T</title><link rel=\"stylesheet\" href=\"http://h/s.css\"><img src=\"DATA:x\">"
    \o "<script>" \o FetchScript \o "</script>"

HtmlFrames ==
    "<script>fetch(\"http://h/api\")</script>"
    \o "<iframe src=\"about:blank\"></iframe><iframe src=\"http://h/f.html\"></iframe>"
    \o "<script src=\"http://h/s.css\"></script>"

HtmlFrame ==
    "<iframe src=\"/f.html\"></iframe><style>@import \"s.css\";</style>"
    \o "<script>" \o XhrScript \o "</script>"
    \o "<link rel=\"prefetch\" href=\"/n.css\"><link rel=\"preload\" href=\"/t.css\">"

CssTop == "@import \"http://h/a.js\";a{b:url(about:blank);c:url(\"HTTP://h/p.png\")}"

JsTop == "import \"http://h/s.css\";fetch(\"HTTP://h/api\");importScripts(\"x.js\")"

CssS == "@import \"/t.css\";a{b:url(p.png)}"

CssT == "@import url(s.css);"

JsA == "import \"/a.js\";fetch(\"/api\");x=\"url(q.png)\""

JsonApi == "{\"k\":1}"

JsApi == "import(\"/f.html\");import \"about:blank\""

CssApi == "a{b:url(JavaScript:0);c:url(JavaScript:0)}"

\* The texts a run is started on.
Inputs == {HtmlTop, HtmlFrames, CssTop, JsTop}

\* The options a run is started with: recursion true, false or omitted,
\* and an object with the inputType of earlier revisions, which is no
\* member of LighterceptorOptions and is read nowhere.
Options == {[recursion |-> TRUE], [recursion |-> FALSE], <<>>, [inputType |-> "js"]}

Content(text, contentType) == [text |-> text, contentType |-> contentType]

\* A response of the global fetch: response.ok, response.text(),
\* response.headers.get("content-type").
Response(ok, text, contentType) == [ok |-> ok, text |-> text, contentType |-> contentType]

\* The successful responses the network may give for a URL.
Web(url_) ==
    CHOOSE v_ \in {(
    CASE url = "http://h/s.css" -> {Response(TRUE, CssS, "text/css")}
      [] url = "http://h/t.css" -> {Response(TRUE, CssT, Undefined)}
      [] url = "http://h/a.js" -> {Response(TRUE, JsA, "text/javascript")}
      [] url = "http://h/f.html" -> {Response(TRUE, HtmlFrame, "text/html; charset=utf-8")}
      [] url = "http://h/api" -> {Response(TRUE, JsonApi, "application/json"),
                                  Response(TRUE, JsApi, Undefined),
                                  Response(TRUE, CssApi, "Text/CSS")}
      [] OTHER -> {}
    ) : url \in {url_}} : TRUE

\* What one call of the global fetch may do: answer, answer with a
\* non-success status, throw, or not exist at all.
FetchOutcomes(url_) ==
    CHOOSE v_ \in {(
    Web(url) \cup {Response(FALSE, "", Undefined)}
             \cup {[ok |-> FALSE, throws |-> TRUE], [ok |-> FALSE, unavailable |-> TRUE]}
    ) : url \in {url_}} : TRUE

\* The document the rendering environment builds from a markup text on a
\* document URL: its title, its elements in document order, the requests it
\* reports while it parses the text and runs its scripts (sync), and the
\* ones its scripts issue from later tasks (async), in order.
Document(title, elements, sync, async) ==
    [title |-> title, elements |-> elements, sync |-> sync, async |-> async]

LinkS == Element("link", [rel |-> "stylesheet", href |-> "http://h/s.css"], "")

ImgData == Element("img", [src |-> "DATA:x"], "")

IframeBlank == Element("iframe", [src |-> "about:blank"], "")

IframeF == Element("iframe", [src |-> "http://h/f.html"], "")

ScriptS == Element("script", [src |-> "http://h/s.css"], "")

IframeSelf == Element("iframe", [src |-> "/f.html"], "")

StyleImport == Element("style", <<>>, "@import \"s.css\";")

InlineScript(text) == Element("script", <<>>, text)

RenderingEnvironment(html_, url_) ==
    CHOOSE v_ \in {(
    CASE html = HtmlTop ->
            Document("T",
                <<Element("title", <<>>, "T"), LinkS, ImgData,
                  InlineScript(FetchScript)>>,
                <<ResourceLoaderFetch("http://h/s.css", url, LinkS),
                  interceptImgSrc("http://h/i.png", Element("img", <<>>, ""), url)>>,
                <<Call("http://h/api", url, "fetch", NoElement)>>)
      [] html = HtmlFrames ->
            Document("",
                <<InlineScript("fetch(\"http://h/api\")"), IframeBlank, IframeF, ScriptS>>,
                <<Call("http://h/api", url, "fetch", NoElement),
                  ResourceLoaderFetch("http://h/f.html", url, IframeF),
                  ResourceLoaderFetch("http://h/s.css", url, ScriptS)>>,
                <<>>)
      [] html = HtmlFrame ->
            Document("",
                <<IframeSelf, StyleImport, InlineScript(XhrScript),
                  Element("link", [rel |-> "prefetch", href |-> "/n.css"], ""),
                  Element("link", [rel |-> "preload", href |-> "/t.css"], "")>>,
                <<ResourceLoaderFetch("/f.html", url, IframeSelf)>>,
                <<Call("/api", url, "xhr", NoElement)>>)
      [] OTHER -> Document("", <<>>, <<>>, <<>>)
    ) : html \in {html_}, url \in {url_}} : TRUE

(***************************************************************************)
(* The state of one run                                                    *)
(***************************************************************************)
VARIABLES
    input,          \* this.input
    options,        \* this.options
    requests,       \* the request log, a sequence of [url, source]
    pending,        \* the work queue, a sequence of [url, kind]
    processed,      \* the set of URLs ever enqueued
    resourceCache,  \* url -> the promise of its content, by its state
    title,          \* the title captured from the top-level document
    pc,             \* where run() is: start, settleTop, drain, loading,
                    \* settle, done (returned) or failed (rejected)
    next,           \* the item the drain loop is working on
    doms,           \* the rendering environments created so far, each with
                    \* the requests its scripts have still to issue
    pushed,         \* history: the items appended to the queue, in order
    popped,         \* history: the items shifted from the queue, in order
    fetched,        \* history: the URLs fetchResourceContent was called on
    outcomes,       \* history: [url, outcome] of each call of the global fetch
    dispatched      \* history: [url, kind] of each item handed to an analyzer

vars ==
    <<input, options, requests, pending, processed, resourceCache, title, pc, next,
      doms, pushed, popped, fetched, outcomes, dispatched>>

Item(url, kind) == [url |-> url, kind |-> kind]

NoItem == Item("", Undefined)

Record(url, source) == [url |-> url, source |-> source]

\* const recursive = this.options.recursion ?? false
recursive == IF "recursion" \in DOMAIN options THEN options.recursion ELSE FALSE

\* The locals of run() that recordUrl and enqueue work on, as one value.
Locals == [requests |-> requests, processed |-> processed, pending |-> pending,
           pushed |-> pushed]

\* for (const x of seq) step(x), on the locals R: After(n) is the locals
\* after the first n turns.
ForEach(R_, seq_, Step(_, _)) ==
    CHOOSE v_ \in {(
    LET RECURSIVE After(_)
        After(n) == IF n = 0 THEN R ELSE Step(After(n - 1), seq[n])
    IN After(Len(seq))
    ) : R \in {R_}, seq \in {seq_}} : TRUE

\* recordUrl that keeps one record per URL: an earlier record of the URL is
\* taken out of the log.
Push_Dedup(R_, resolved_, source_) ==
    CHOOSE v_ \in {(
    IF resolved = Undefined THEN R
    ELSE [R EXCEPT !.requests =
              Append(SelectSeq(@, LAMBDA r : r.url # resolved), Record(resolved, source))]
    ) : R \in {R_}, resolved \in {resolved_}, source \in {source_}} : TRUE

\* requests.push({url: resolved, source}) unless resolved is undefined.
Push(R_, resolved_, source_) ==
    CHOOSE v_ \in {(
    IF resolved = Undefined THEN R
    ELSE [R EXCEPT !.requests = Append(@, Record(resolved, source))]
    ) : R \in {R_}, resolved \in {resolved_}, source \in {source_}} : TRUE

recordUrl(R_, url_, source_, baseUrl_) ==
    CHOOSE v_ \in {(
    Push(R, resolveUrl(baseUrl, url), source)
    ) : R \in {R_}, url \in {url_}, source \in {source_}, baseUrl \in {baseUrl_}} : TRUE

\* enqueue without the test of the scheme.
enqueue_NoSkipCheck(R_, url_, kind_) ==
    CHOOSE v_ \in {(
    IF ~recursive THEN R
    ELSE IF url \in R.processed THEN R
    ELSE [R EXCEPT !.processed = @ \cup {url},
                   !.pending = Append(@, Item(url, kind)),
                   !.pushed = Append(@, Item(url, kind))]
    ) : R \in {R_}, url \in {url_}, kind \in {kind_}} : TRUE

\* enqueue without the test of the ProcessedSet.
enqueue_NoProcessedCheck(R_, url_, kind_) ==
    CHOOSE v_ \in {(
    IF ~recursive \/ isSkippableUrl(url) THEN R
    ELSE [R EXCEPT !.processed = @ \cup {url},
                   !.pending = Append(@, Item(url, kind)),
                   !.pushed = Append(@, Item(url, kind))]
    ) : R \in {R_}, url \in {url_}, kind \in {kind_}} : TRUE

\* enqueue that puts the item at the head of the queue.
enqueue_Unshift(R_, url_, kind_) ==
    CHOOSE v_ \in {(
    IF ~recursive \/ isSkippableUrl(url) THEN R
    ELSE IF url \in R.processed THEN R
    ELSE [R EXCEPT !.processed = @ \cup {url},
                   !.pending = <<Item(url, kind)>> \o @,
                   !.pushed = Append(@, Item(url, kind))]
    ) : R \in {R_}, url \in {url_}, kind \in {kind_}} : TRUE

\* enqueue without the test of the recursion option.
enqueue_IgnoresOption(R_, url_, kind_) ==
    CHOOSE v_ \in {(
    IF isSkippableUrl(url) THEN R
    ELSE IF url \in R.processed THEN R
    ELSE [R EXCEPT !.processed = @ \cup {url},
                   !.pending = Append(@, Item(url, kind)),
                   !.pushed = Append(@, Item(url, kind))]
    ) : R \in {R_}, url \in {url_}, kind \in {kind_}} : TRUE

\* enqueue without processed.add(url).
enqueue_QueueOnly(R_, url_, kind_) ==
    CHOOSE v_ \in {(
    IF ~recursive \/ isSkippableUrl(url) THEN R
    ELSE IF url \in R.processed THEN R
    ELSE [R EXCEPT !.pending = Append(@, Item(url, kind)),
                   !.pushed = Append(@, Item(url, kind))]
    ) : R \in {R_}, url \in {url_}, kind \in {kind_}} : TRUE

enqueue(R_, url_, kind_) ==
    CHOOSE v_ \in {(
    IF ~recursive \/ isSkippableUrl(url) THEN R
    ELSE IF url \in R.processed THEN R
    ELSE [R EXCEPT !.processed = @ \cup {url},
                   !.pending = Append(@, Item(url, kind)),
                   !.pushed = Append(@, Item(url, kind))]
    ) : R \in {R_}, url \in {url_}, kind \in {kind_}} : TRUE

\* The target of an @import is queued with the kind its URL suggests.
CssImport_Inferred(r_, resolved_) ==
    CHOOSE v_ \in {(
    IF resolved = Undefined THEN r
    ELSE enqueue(recordUrl(r, resolved, "css", Undefined), resolved,
                 inferResourceKindFromUrl(resolved))
    ) : r \in {r_}, resolved \in {resolved_}} : TRUE

\* The body of the loop over imports, on the resolved URL.
CssImport(r_, resolved_) ==
    CHOOSE v_ \in {(
    IF resolved = Undefined THEN r
    ELSE enqueue(recordUrl(r, resolved, "css", Undefined), resolved, "css")
    ) : r \in {r_}, resolved \in {resolved_}} : TRUE

\* The body of the loop over urls, on the resolved URL.
CssUrl(r_, resolved_) ==
    CHOOSE v_ \in {(
    IF resolved = Undefined THEN r
    ELSE recordUrl(r, resolved, "css", Undefined)
    ) : r \in {r_}, resolved \in {resolved_}} : TRUE

RecordCssDependencies(R_, deps_, baseUrl_) ==
    CHOOSE v_ \in {(
    LET Import(r, url) == CssImport(r, resolveUrl(baseUrl, url))
        Url(r, url) == CssUrl(r, resolveUrl(baseUrl, url))
    IN ForEach(ForEach(R, deps.imports, Import), deps.urls, Url)
    ) : R \in {R_}, deps \in {deps_}, baseUrl \in {baseUrl_}} : TRUE

\* The URLs of a retrieved style sheet are taken as written: the URL the
\* sheet came from is not passed on as their base.
recordCssUrls_NoBase(R_, cssText_, baseUrl_) ==
    CHOOSE v_ \in {(
    RecordCssDependencies(R, extractCssDependencies(cssText), Undefined)
    ) : R \in {R_}, cssText \in {cssText_}, baseUrl \in {baseUrl_}} : TRUE

recordCssUrls(R_, cssText_, baseUrl_) ==
    CHOOSE v_ \in {(
    RecordCssDependencies(R, extractCssDependencies(cssText), baseUrl)
    ) : R \in {R_}, cssText \in {cssText_}, baseUrl \in {baseUrl_}} : TRUE

\* The bodies of the four loops of analyzeJs, on the resolved URL.
JsImport(r_, resolved_) ==
    CHOOSE v_ \in {(
    IF resolved = Undefined THEN r
    ELSE enqueue(recordUrl(r, resolved, "resource", Undefined), resolved,
                 OrElse(inferResourceKindFromUrl(resolved), "js"))
    ) : r \in {r_}, resolved \in {resolved_}} : TRUE

JsImportScripts(r_, resolved_) ==
    CHOOSE v_ \in {(
    IF resolved = Undefined THEN r
    ELSE enqueue(recordUrl(r, resolved, "resource", Undefined), resolved, "js")
    ) : r \in {r_}, resolved \in {resolved_}} : TRUE

\* The request of a script is queued for retrieval and left out of the log.
JsRequest_Unrecorded(r_, resolved_, source_) ==
    CHOOSE v_ \in {(
    IF resolved = Undefined THEN r
    ELSE enqueue(r, resolved, inferResourceKindFromUrl(resolved))
    ) : r \in {r_}, resolved \in {resolved_}, source \in {source_}} : TRUE

JsRequest(r_, resolved_, source_) ==
    CHOOSE v_ \in {(
    IF resolved = Undefined THEN r
    ELSE enqueue(recordUrl(r, resolved, source, Undefined), resolved,
                 inferResourceKindFromUrl(resolved))
    ) : r \in {r_}, resolved \in {resolved_}, source \in {source_}} : TRUE

AnalyzeJsDependencies(R_, deps_, baseUrl_) ==
    CHOOSE v_ \in {(
    LET Import(r, url) == JsImport(r, resolveUrl(baseUrl, url))
        ImportScripts(r, url) == JsImportScripts(r, resolveUrl(baseUrl, url))
        Fetch(r, url) == JsRequest(r, resolveUrl(baseUrl, url), "fetch")
        Xhr(r, url) == JsRequest(r, resolveUrl(baseUrl, url), "xhr")
    IN ForEach(ForEach(ForEach(ForEach(R, deps.imports, Import),
                               deps.importScripts, ImportScripts),
                       deps.fetches, Fetch),
               deps.xhrs, Xhr)
    ) : R \in {R_}, deps \in {deps_}, baseUrl \in {baseUrl_}} : TRUE

analyzeJs(R_, jsText_, baseUrl_) ==
    CHOOSE v_ \in {(
    AnalyzeJsDependencies(R, extractJsDependencies(jsText), baseUrl)
    ) : R \in {R_}, jsText \in {jsText_}, baseUrl \in {baseUrl_}} : TRUE

(***************************************************************************)
(* Markup analysis                                                         *)
(***************************************************************************)
hasAttribute(element, name) == name \in DOMAIN element.attrs

\* element.getAttribute(name); an absent attribute reads as the empty
\* string: the source treats null and "" alike (if (src), ?? "", ?? link.href).
getAttribute(element, name) ==
    IF hasAttribute(element, name) THEN element.attrs[name] ELSE ""

\* A reflected URL property (img.src, script.src, iframe.src, link.href):
\* the attribute parsed against the document URL, or the attribute itself
\* when it does not parse; empty when the attribute is absent.
ReflectedUrl(element_, name_, documentUrl_) ==
    CHOOSE v_ \in {(
    IF ~hasAttribute(element, name) THEN ""
    ELSE HrefOr(URLParse(getAttribute(element, name), documentUrl), getAttribute(element, name))
    ) : element \in {element_}, name \in {name_}, documentUrl \in {documentUrl_}} : TRUE

KindOfTag(tagName_, rel_, asValue_) ==
    CHOOSE v_ \in {(
    IF tagName = "script" THEN "js"
    ELSE IF tagName = "iframe" THEN "html"
    ELSE IF tagName = "link" /\ includes(rel, "stylesheet") THEN "css"
    ELSE IF tagName = "link" /\ (includes(rel, "preload") \/ includes(rel, "prefetch"))
              /\ asValue = "style" THEN "css"
    ELSE IF tagName = "link" /\ (includes(rel, "preload") \/ includes(rel, "prefetch"))
              /\ asValue = "script" THEN "js"
    ELSE Undefined
    ) : tagName \in {tagName_}, rel \in {rel_}, asValue \in {asValue_}} : TRUE

inferKindFromElement(element_) ==
    CHOOSE v_ \in {(
    IF element = NoElement THEN Undefined
    ELSE KindOfTag(toLowerCase(element.tag), toLowerCase(getAttribute(element, "rel")),
                   toLowerCase(getAttribute(element, "as")))
    ) : element \in {element_}} : TRUE

\* The interception callback after recordUrl(resolved, source): recorded is
\* the locals after it, kind the kind of the requesting element.
InterceptRecorded(recorded_, resolved_, source_, kind_) ==
    CHOOSE v_ \in {(
    IF ~recursive THEN recorded
    ELSE IF source = "fetch" \/ source = "xhr"
    THEN enqueue(recorded, resolved, inferResourceKindFromUrl(resolved))
    ELSE IF source = "resource" /\ kind # Undefined
    THEN enqueue(recorded, resolved, kind)
    ELSE recorded
    ) : recorded \in {recorded_}, resolved \in {resolved_}, source \in {source_}, kind \in {kind_}} : TRUE

\* The callback enqueues the request without recording it.
InterceptResolved_Unrecorded(R_, resolved_, source_, element_) ==
    CHOOSE v_ \in {(
    IF resolved = Undefined THEN R
    ELSE InterceptRecorded(R, resolved, source, inferKindFromElement(element))
    ) : R \in {R_}, resolved \in {resolved_}, source \in {source_}, element \in {element_}} : TRUE

InterceptResolved(R_, resolved_, source_, element_) ==
    CHOOSE v_ \in {(
    IF resolved = Undefined THEN R
    ELSE InterceptRecorded(recordUrl(R, resolved, source, Undefined), resolved, source,
                           inferKindFromElement(element))
    ) : R \in {R_}, resolved \in {resolved_}, source \in {source_}, element \in {element_}} : TRUE

\* The callback logs the loads of elements only: a request reported with
\* another source than resource is dropped.
interceptor_ResourceOnly(R_, call_) ==
    CHOOSE v_ \in {(
    IF call.source = "resource"
    THEN InterceptResolved(R, resolveUrl(call.referrer, call.url), "resource", call.element)
    ELSE R
    ) : R \in {R_}, call \in {call_}} : TRUE

\* The interception callback analyzeHtml gives the rendering environment,
\* on one reported request.
interceptor(R_, call_) ==
    CHOOSE v_ \in {(
    InterceptResolved(R, resolveUrl(call.referrer, call.url), OrElse(call.source, "unknown"),
                      call.element)
    ) : R \in {R_}, call \in {call_}} : TRUE

\* The callback hands the request on: it returns null.
interceptorReturn_PassThrough(call_) ==
    CHOOSE v_ \in {(
    Null
    ) : call \in {call_}} : TRUE

\* What the interception callback returns to the rendering environment for
\* a reported request: Buffer.from("") where the URL does not resolve and
\* Buffer.from("") after recording it.
interceptorReturn(call_) ==
    CHOOSE v_ \in {(
    IF resolveUrl(call.referrer, call.url) = Undefined THEN [buffer |-> ""]
    ELSE [buffer |-> ""]
    ) : call \in {call_}} : TRUE

\* InterceptingResourceLoader.fetch after the callback: the URLs of the
\* reported loads it passes on to super.fetch, the real network fetch of the
\* environment, the callback having returned null or undefined (neither a
\* Buffer nor a string).
SuperFetch(calls_) ==
    CHOOSE v_ \in {(
    LET FallsBack(call) ==
            /\ call.source = "resource"
            /\ \A result \in {interceptorReturn(call)} :
                   "buffer" \notin DOMAIN result /\ "string" \notin DOMAIN result
    IN [i \in DOMAIN SelectSeq(calls, FallsBack) |-> SelectSeq(calls, FallsBack)[i].url]
    ) : calls \in {calls_}} : TRUE

\* document.querySelectorAll for the selectors of the source: the elements
\* with one of the tags (any tag when tags is empty) that carry the
\* attribute (any when attr is ""), in document order.
querySelectorAll(document_, tags_, attr_) ==
    CHOOSE v_ \in {(
    LET Selected(e) == (tags = {} \/ e.tag \in tags) /\ (attr = "" \/ hasAttribute(e, attr))
    IN SelectSeq(document.elements, Selected)
    ) : document \in {document_}, tags \in {tags_}, attr \in {attr_}} : TRUE

\* The src of an image is recorded as a generic resource.
RecordIfSet_AsResource(r_, url_, source_, baseUrl_) ==
    CHOOSE v_ \in {(
    IF url # "" THEN recordUrl(r, url, "resource", baseUrl) ELSE r
    ) : r \in {r_}, url \in {url_}, source \in {source_}, baseUrl \in {baseUrl_}} : TRUE

\* if (url) recordUrl(url, source, baseUrl)
RecordIfSet(r_, url_, source_, baseUrl_) ==
    CHOOSE v_ \in {(
    IF url # "" THEN recordUrl(r, url, source, baseUrl) ELSE r
    ) : r \in {r_}, url \in {url_}, source \in {source_}, baseUrl \in {baseUrl_}} : TRUE

\* if (url) { recordUrl(url, "resource"); enqueue(url, kind) }
RecordAndEnqueueIfSet(r_, url_, kind_) ==
    CHOOSE v_ \in {(
    IF url # "" THEN enqueue(recordUrl(r, url, "resource", Undefined), url, kind) ELSE r
    ) : r \in {r_}, url \in {url_}, kind \in {kind_}} : TRUE

\* if (srcset) for (const url of parseSrcsetUrls(srcset)) recordUrl(url, source, baseUrl)
RecordSrcset(r_, srcset_, source_, baseUrl_) ==
    CHOOSE v_ \in {(
    LET Candidate(r2, url) == recordUrl(r2, url, source, baseUrl)
    IN IF srcset # "" THEN ForEach(r, parseSrcsetUrls(srcset), Candidate) ELSE r
    ) : r \in {r_}, srcset \in {srcset_}, source \in {source_}, baseUrl \in {baseUrl_}} : TRUE

\* if (cssText) recordCssUrls(cssText, baseUrl)
RecordCssIfSet(r_, cssText_, baseUrl_) ==
    CHOOSE v_ \in {(
    IF cssText # "" THEN recordCssUrls(r, cssText, baseUrl) ELSE r
    ) : r \in {r_}, cssText \in {cssText_}, baseUrl \in {baseUrl_}} : TRUE

\* The link pass after recordUrl(resolvedHref, "resource"): rel is in lower
\* case, kind is inferResourceKindFromUrl(resolvedHref).
LinkEnqueue(recorded_, rel_, resolvedHref_, kind_) ==
    CHOOSE v_ \in {(
    IF includes(rel, "stylesheet") THEN enqueue(recorded, resolvedHref, "css")
    ELSE IF includes(rel, "preload") /\ kind # Undefined
    THEN enqueue(recorded, resolvedHref, kind)
    ELSE recorded
    ) : recorded \in {recorded_}, rel \in {rel_}, resolvedHref \in {resolvedHref_}, kind \in {kind_}} : TRUE

LinkResolved(r_, rel_, resolvedHref_) ==
    CHOOSE v_ \in {(
    LinkEnqueue(recordUrl(r, resolvedHref, "resource", Undefined), toLowerCase(rel),
                resolvedHref, inferResourceKindFromUrl(resolvedHref))
    ) : r \in {r_}, rel \in {rel_}, resolvedHref \in {resolvedHref_}} : TRUE

\* if (shouldInterceptLinkRel(rel)) { ... if (href) { ... } }
LinkHref(r_, rel_, href_, baseUrl_) ==
    CHOOSE v_ \in {(
    IF shouldInterceptLinkRel(rel) /\ href # ""
    THEN LinkResolved(r, rel, OrElse(resolveUrl(baseUrl, href), href))
    ELSE r
    ) : r \in {r_}, rel \in {rel_}, href \in {href_}, baseUrl \in {baseUrl_}} : TRUE

\* if (rel.toLowerCase().includes("preload")) { ... imagesrcset ... }
LinkImageSrcset(r_, rel_, imagesrcset_, baseUrl_) ==
    CHOOSE v_ \in {(
    IF includes(toLowerCase(rel), "preload")
    THEN RecordSrcset(r, imagesrcset, "resource", baseUrl)
    ELSE r
    ) : r \in {r_}, rel \in {rel_}, imagesrcset \in {imagesrcset_}, baseUrl \in {baseUrl_}} : TRUE

\* The harvest of the element tree: the querySelectorAll passes of
\* analyzeHtml, in the order of the source.
Harvest(R_, document_, documentUrl_, baseUrl_) ==
    CHOOSE v_ \in {(
    LET Img(r, e) == RecordIfSet(r, ReflectedUrl(e, "src", documentUrl), "img", Undefined)
        ImgSrcset(r, e) == RecordSrcset(r, getAttribute(e, "srcset"), "img", baseUrl)
        Src(r, e) == RecordIfSet(r, getAttribute(e, "src"), "resource", baseUrl)
        SourceSrcset(r, e) == RecordSrcset(r, getAttribute(e, "srcset"), "resource", baseUrl)
        Script(r, e) == RecordAndEnqueueIfSet(r, ReflectedUrl(e, "src", documentUrl), "js")
        Iframe(r, e) == RecordAndEnqueueIfSet(r, ReflectedUrl(e, "src", documentUrl), "html")
        Poster(r, e) == RecordIfSet(r, getAttribute(e, "poster"), "resource", baseUrl)
        Data(r, e) == RecordIfSet(r, getAttribute(e, "data"), "resource", baseUrl)
        InlineStyle(r, e) == RecordCssIfSet(r, getAttribute(e, "style"), baseUrl)
        StyleElement(r, e) == RecordCssIfSet(r, e.text, baseUrl)
        Link(r, e) ==
            LinkImageSrcset(
                LinkHref(r, getAttribute(e, "rel"),
                         IF hasAttribute(e, "href") THEN getAttribute(e, "href")
                         ELSE ReflectedUrl(e, "href", documentUrl),
                         baseUrl),
                getAttribute(e, "rel"), getAttribute(e, "imagesrcset"), baseUrl)
        Pass(r, tags, attr, Step(_, _)) ==
            ForEach(r, querySelectorAll(document, tags, attr), Step)
        p1 == Pass(R, {"img"}, "", Img)
        p2 == Pass(p1, {"img"}, "srcset", ImgSrcset)
        p3 == Pass(p2, {"source"}, "src", Src)
        p4 == Pass(p3, {"source"}, "srcset", SourceSrcset)
        p5 == Pass(p4, {"script"}, "src", Script)
        p6 == Pass(p5, {"iframe"}, "src", Iframe)
        p7 == Pass(p6, {"video", "audio"}, "src", Src)
        p8 == Pass(p7, {"video"}, "poster", Poster)
        p9 == Pass(p8, {"track"}, "src", Src)
        p10 == Pass(p9, {"embed"}, "src", Src)
        p11 == Pass(p10, {"object"}, "data", Data)
        p12 == Pass(p11, {}, "style", InlineStyle)
        p13 == Pass(p12, {"style"}, "", StyleElement)
    IN Pass(p13, {"link"}, "rel", Link)
    ) : R \in {R_}, document \in {document_}, documentUrl \in {documentUrl_}, baseUrl \in {baseUrl_}} : TRUE

\* The harvest runs before the requests reported during the parse are
\* logged.
AnalyzeDocument_HarvestFirst(R_, document_, documentUrl_, baseUrl_) ==
    CHOOSE v_ \in {(
    ForEach(Harvest(R, document, documentUrl, baseUrl), document.sync, interceptor)
    ) : R \in {R_}, document \in {document_}, documentUrl \in {documentUrl_}, baseUrl \in {baseUrl_}} : TRUE

\* The requests the environment reports while it parses, then the harvest.
AnalyzeDocument(R_, document_, documentUrl_, baseUrl_) ==
    CHOOSE v_ \in {(
    Harvest(ForEach(R, document.sync, interceptor), document, documentUrl, baseUrl)
    ) : R \in {R_}, document \in {document_}, documentUrl \in {documentUrl_}, baseUrl \in {baseUrl_}} : TRUE

\* analyzeHtml up to its settle wait, on an environment that came up.
analyzeHtml(R_, htmlText_, baseUrl_) ==
    CHOOSE v_ \in {(
    AnalyzeDocument(R, RenderingEnvironment(htmlText, OrElse(baseUrl, AboutBlank)),
                    OrElse(baseUrl, AboutBlank), baseUrl)
    ) : R \in {R_}, htmlText \in {htmlText_}, baseUrl \in {baseUrl_}} : TRUE

(***************************************************************************)
(* Retrieval                                                               *)
(***************************************************************************)
\* fetchResourceContent without the test of response.ok.
fetchResourceContent_IgnoresStatus(outcome_) ==
    CHOOSE v_ \in {(
    IF "unavailable" \in DOMAIN outcome THEN Null
    ELSE IF "throws" \in DOMAIN outcome THEN Null
    ELSE Content(outcome.text, outcome.contentType)
    ) : outcome \in {outcome_}} : TRUE

\* What the promise of fetchResourceContent(url) resolves to, given what the
\* global fetch does.
fetchResourceContent(outcome_) ==
    CHOOSE v_ \in {(
    IF "unavailable" \in DOMAIN outcome THEN Null
    ELSE IF "throws" \in DOMAIN outcome THEN Null
    ELSE IF ~outcome.ok THEN Null
    ELSE Content(outcome.text, outcome.contentType)
    ) : outcome \in {outcome_}} : TRUE

\* resourceCache.set(url, promise)
CacheSet(cache_, url_, promise_) ==
    CHOOSE v_ \in {(
    [u \in DOMAIN cache \cup {url} |-> IF u = url THEN promise ELSE cache[u]]
    ) : cache \in {cache_}, url \in {url_}, promise \in {promise_}} : TRUE

\* loadResource(url) up to its return: the cache and the calls of
\* fetchResourceContent after it.
loadResource(cache_, calls_, url_) ==
    CHOOSE v_ \in {(
    IF url \in DOMAIN cache
    THEN [cache |-> cache, calls |-> calls]
    ELSE [cache |-> CacheSet(cache, url, Unsettled), calls |-> Append(calls, url)]
    ) : cache \in {cache_}, calls \in {calls_}, url \in {url_}} : TRUE

\* The classification of the content wins over the hint.
KindOf_InferenceFirst(item_, result_) ==
    CHOOSE v_ \in {(
    OrElse(detectResourceKind(item.url, result.contentType, result.text), item.kind)
    ) : item \in {item_}, result \in {result_}} : TRUE

\* const kind = next.kind ?? detectResourceKind(next.url, result.contentType, result.text)
KindOf(item_, result_) ==
    CHOOSE v_ \in {(
    OrElse(item.kind, detectResourceKind(item.url, result.contentType, result.text))
    ) : item \in {item_}, result \in {result_}} : TRUE

(***************************************************************************)
(* run()                                                                   *)
(***************************************************************************)
\* The most items one run may shift from the queue.
MaxPops == 6

Init ==
    /\ input \in Inputs
    /\ options \in Options
    /\ requests = <<>>
    /\ pending = <<>>
    /\ processed = {}
    /\ resourceCache = <<>>
    /\ title = Undefined
    /\ pc = "start"
    /\ next = NoItem
    /\ doms = <<>>
    /\ pushed = <<>>
    /\ popped = <<>>
    /\ fetched = <<>>
    /\ outcomes = <<>>
    /\ dispatched = <<>>

\* The locals of run() become those of R.
SetLocals(R_) ==
    \E R \in {R_} :
        /\ requests' = R.requests
        /\ processed' = R.processed
        /\ pending' = R.pending
        /\ pushed' = R.pushed

\* The environment analyzeHtml created for a text, with the requests its
\* scripts have still to issue and the loads its resource loader has
\* fetched from the network itself.
Dom(htmlText_, baseUrl_) ==
    CHOOSE v_ \in {(
    [url |-> OrElse(baseUrl, AboutBlank),
     calls |-> RenderingEnvironment(htmlText, OrElse(baseUrl, AboutBlank)).async,
     network |-> SuperFetch(RenderingEnvironment(htmlText, OrElse(baseUrl, AboutBlank)).sync)]
    ) : htmlText \in {htmlText_}, baseUrl \in {baseUrl_}} : TRUE

\* The throw of createJSDOMWithInterceptor is caught and the run goes on.
AnalyzeHtml_Swallow(htmlText, baseUrl, settled) ==
    \/ /\ SetLocals(analyzeHtml(Locals, htmlText, baseUrl))
       /\ doms' = Append(doms, Dom(htmlText, baseUrl))
       /\ pc' = settled
    \/ /\ pc' = "drain"
       /\ UNCHANGED <<requests, processed, pending, pushed, doms>>

\* analyzeHtml(htmlText, baseUrl) up to its settle wait (goes on at
\* settled), or the throw of createJSDOMWithInterceptor when the
\* environment does not come up.
AnalyzeHtml(htmlText, baseUrl, settled) ==
    \/ /\ SetLocals(analyzeHtml(Locals, htmlText, baseUrl))
       /\ doms' = Append(doms, Dom(htmlText, baseUrl))
       /\ pc' = settled
    \/ /\ pc' = "failed"
       /\ UNCHANGED <<requests, processed, pending, pushed, doms>>

\* run() from its start to its first suspension.
RunStart ==
    /\ pc = "start"
    /\ \/ /\ detectInputKind(input) = "html"
          /\ AnalyzeHtml(input, Undefined, "settleTop")
       \/ /\ detectInputKind(input) = "css"
          /\ SetLocals(recordCssUrls(Locals, input, Undefined))
          /\ pc' = "drain"
          /\ UNCHANGED doms
       \/ /\ detectInputKind(input) = "js"
          /\ SetLocals(analyzeJs(Locals, input, Undefined))
          /\ pc' = "drain"
          /\ UNCHANGED doms
    /\ UNCHANGED <<input, options, resourceCache, title, next, popped, fetched, outcomes,
                   dispatched>>

\* The settle wait of the top-level analyzeHtml ends: the title is read.
SettleTop ==
    /\ pc = "settleTop"
    /\ title' = LET t == RenderingEnvironment(input, AboutBlank).title
                IN IF t = "" THEN Undefined ELSE t
    /\ pc' = "drain"
    /\ UNCHANGED <<input, options, requests, pending, processed, resourceCache, next, doms,
                   pushed, popped, fetched, outcomes, dispatched>>

\* The loop takes the item at the tail of the queue.
DrainPop_Last ==
    /\ pc = "drain"
    /\ pending # <<>>
    /\ Len(popped) < MaxPops
    /\ next' = pending[Len(pending)]
    /\ pending' = SubSeq(pending, 1, Len(pending) - 1)
    /\ popped' = Append(popped, pending[Len(pending)])
    /\ LET loaded == loadResource(resourceCache, fetched, pending[Len(pending)].url)
       IN resourceCache' = loaded.cache /\ fetched' = loaded.calls
    /\ pc' = "loading"
    /\ UNCHANGED <<input, options, requests, processed, title, doms, pushed, outcomes,
                   dispatched>>

\* The loop shifts the next item while the retrieval of the last one is
\* still awaited.
DrainPop_Concurrent ==
    /\ pc \in {"drain", "loading"}
    /\ pending # <<>>
    /\ Len(popped) < MaxPops
    /\ next' = Head(pending)
    /\ pending' = Tail(pending)
    /\ popped' = Append(popped, Head(pending))
    /\ LET loaded == loadResource(resourceCache, fetched, Head(pending).url)
       IN resourceCache' = loaded.cache /\ fetched' = loaded.calls
    /\ pc' = "loading"
    /\ UNCHANGED <<input, options, requests, processed, title, doms, pushed, outcomes,
                   dispatched>>

\* processPending: the loop finds an item, shifts it and awaits
\* loadResource(next.url).
DrainPop ==
    /\ pc = "drain"
    /\ pending # <<>>
    /\ Len(popped) < MaxPops
    /\ next' = Head(pending)
    /\ pending' = Tail(pending)
    /\ popped' = Append(popped, Head(pending))
    /\ LET loaded == loadResource(resourceCache, fetched, Head(pending).url)
       IN resourceCache' = loaded.cache /\ fetched' = loaded.calls
    /\ pc' = "loading"
    /\ UNCHANGED <<input, options, requests, processed, title, doms, pushed, outcomes,
                   dispatched>>

\* An item of unknown kind is scanned as a script.
Dispatch_UnknownAsJs(item, result, kind) ==
    /\ dispatched' = Append(dispatched, Item(item.url, kind))
    /\ \/ /\ kind = "html"
          /\ AnalyzeHtml(result.text, item.url, "settle")
       \/ /\ kind = "css"
          /\ SetLocals(recordCssUrls(Locals, result.text, item.url))
          /\ pc' = "drain"
          /\ UNCHANGED doms
       \/ /\ kind \notin {"html", "css"}
          /\ SetLocals(analyzeJs(Locals, result.text, item.url))
          /\ pc' = "drain"
          /\ UNCHANGED doms

\* processPending after the kind of the item is known: the item is dropped,
\* or handed to the analyzer of its kind.
Dispatch(item, result, kind) ==
    IF kind = Undefined
    THEN /\ pc' = "drain"
         /\ UNCHANGED <<requests, processed, pending, pushed, doms, dispatched>>
    ELSE /\ dispatched' = Append(dispatched, Item(item.url, kind))
         /\ \/ /\ kind = "html"
               /\ AnalyzeHtml(result.text, item.url, "settle")
            \/ /\ kind = "css"
               /\ SetLocals(recordCssUrls(Locals, result.text, item.url))
               /\ pc' = "drain"
               /\ UNCHANGED doms
            \/ /\ kind \notin {"html", "css"}
               /\ SetLocals(analyzeJs(Locals, result.text, item.url))
               /\ pc' = "drain"
               /\ UNCHANGED doms

\* processPending after the await: an item without content is skipped.
Process(item, result) ==
    IF result = Null
    THEN /\ pc' = "drain"
         /\ UNCHANGED <<requests, processed, pending, pushed, doms, dispatched>>
    ELSE \E kind \in {KindOf(item, result)} : Dispatch(item, result, kind)

\* The promise of fetchResourceContent(url) settles with result after the
\* global fetch did outcome.
Settlement(url_, outcome_, result_) ==
    CHOOSE v_ \in {(
    [result |-> result,
     cache |-> CacheSet(resourceCache, url, result),
     outcomes |-> Append(outcomes, [url |-> url, outcome |-> outcome])]
    ) : url \in {url_}, outcome \in {outcome_}, result \in {result_}} : TRUE

\* The ways the promise awaited for url can settle: with what
\* fetchResourceContent makes of the global fetch's answer, or with the
\* value it settled with before.
Settlements(url_) ==
    CHOOSE v_ \in {(
    IF resourceCache[url] = Unsettled
    THEN {Settlement(url, outcome, fetchResourceContent(outcome)) :
              outcome \in FetchOutcomes(url)}
    ELSE {[result |-> resourceCache[url], cache |-> resourceCache, outcomes |-> outcomes]}
    ) : url \in {url_}} : TRUE

\* A failed retrieval is forgotten and the item goes back to the queue.
DrainLoaded_Retry ==
    /\ pc = "loading"
    /\ \E s \in Settlements(next.url) :
           /\ outcomes' = s.outcomes
           /\ IF s.result = Null
              THEN /\ resourceCache' = [u \in DOMAIN resourceCache \ {next.url} |->
                                            resourceCache[u]]
                   /\ pending' = Append(pending, next)
                   /\ pc' = "drain"
                   /\ UNCHANGED <<requests, processed, pushed, doms, dispatched>>
              ELSE /\ resourceCache' = s.cache
                   /\ Process(next, s.result)
    /\ UNCHANGED <<input, options, title, next, popped, fetched>>

\* The awaited promise settles and processPending goes on with the item.
DrainLoaded ==
    /\ pc = "loading"
    /\ \E s \in Settlements(next.url) :
           /\ outcomes' = s.outcomes
           /\ resourceCache' = s.cache
           /\ Process(next, s.result)
    /\ UNCHANGED <<input, options, title, next, popped, fetched>>

\* The settle wait of the analyzeHtml of a queued item ends.
SettleItem ==
    /\ pc = "settle"
    /\ pc' = "drain"
    /\ UNCHANGED <<input, options, requests, pending, processed, resourceCache, title, next,
                   doms, pushed, popped, fetched, outcomes, dispatched>>

\* processPending works on the items it found when it started: run()
\* returns after the first item although the queue has grown meanwhile.
DrainEmpty_FirstPass ==
    /\ pc = "drain"
    /\ pending = <<>> \/ popped # <<>>
    /\ pc' = "done"
    /\ UNCHANGED <<input, options, requests, pending, processed, resourceCache, title, next,
                   doms, pushed, popped, fetched, outcomes, dispatched>>

\* processPending finds the queue empty and run() returns its result.
DrainEmpty ==
    /\ pc = "drain"
    /\ pending = <<>>
    /\ pc' = "done"
    /\ UNCHANGED <<input, options, requests, pending, processed, resourceCache, title, next,
                   doms, pushed, popped, fetched, outcomes, dispatched>>

\* run() is suspended or over: tasks of the rendering environments may run.
Suspended == pc \in {"settleTop", "settle", "loading", "done", "failed"}

\* A script of a rendering environment issues its next request from a task
\* and the environment reports it to the interception callback.
Intercept ==
    /\ Suspended
    /\ \E i \in DOMAIN doms :
           /\ doms[i].calls # <<>>
           /\ SetLocals(interceptor(Locals, Head(doms[i].calls)))
           /\ doms' = [doms EXCEPT ![i].calls = Tail(@),
                                   ![i].network = @ \o SuperFetch(<<Head(doms[i].calls)>>)]
    /\ UNCHANGED <<input, options, resourceCache, title, pc, next, popped, fetched, outcomes,
                   dispatched>>

\* What run() returns: { title, capturedAt, requests }, requests being the
\* log itself.
Result == [title |-> title, requests |-> requests]

Next ==
    \/ RunStart
    \/ SettleTop
    \/ DrainPop
    \/ DrainLoaded
    \/ SettleItem
    \/ DrainEmpty
    \/ Intercept

Spec == Init /\ [][Next]_vars

\* run() is one asynchronous function on the event loop: each of its steps
\* is taken once it can be, every retrieval and settle wait completing.
Run == RunStart \/ SettleTop \/ DrainPop \/ DrainLoaded \/ SettleItem \/ DrainEmpty

FairSpec == Spec /\ WF_vars(Run)

(***************************************************************************)
(* Properties of a run                                                     *)
(***************************************************************************)
\* How many entries of seq satisfy Test.
Count(seq, Test(_)) == Cardinality({i \in DOMAIN seq : Test(seq[i])})

\* How often url is in the request log.
Recorded(url) == Count(requests, LAMBDA r : r.url = url)

\* How often fetchResourceContent was called on url.
Retrievals(url) == Count(fetched, LAMBDA u : u = url)

\* The global fetch did not deliver: it is unavailable, it threw, or it
\* answered with a non-success status.
IsFailure(outcome) ==
    \/ "unavailable" \in DOMAIN outcome
    \/ "throws" \in DOMAIN outcome
    \/ ~outcome.ok

\* C1: in a run with recursion enabled, fetchResourceContent is called at
\* most once on each URL, however often the URL is discovered and whether
\* its first retrieval delivered content or absent.
C1_AtMostOneRetrieval ==
    recursive => \A url \in processed \cup {fetched[i] : i \in DOMAIN fetched} :
                     Retrievals(url) <= 1

\* A run with recursion that returned after a URL was discovered three
\* times, from a markup attribute, an interception callback and an @import
\* of a retrieved style sheet, and retrieved once.
C1_Witness ==
    /\ recursive
    /\ pc = "done"
    /\ \E url \in processed :
           /\ Recorded(url) >= 3
           /\ \E i, j \in DOMAIN requests :
                  /\ requests[i].url = url /\ requests[i].source = "resource"
                  /\ requests[j].url = url /\ requests[j].source = "css"
           /\ Retrievals(url) = 1

\* C2: with every retrieval and settle wait completing, the drain loop
\* finds the queue empty and run() returns its result, also on reference
\* graphs with cycles; the one other end of a run is the fatal failure of
\* a rendering environment.
C2_RunReturns == ([](pc # "failed")) => <>(pc = "done")

\* A run that returned after it went round a cycle: the style sheets s.css
\* and t.css import each other, both were analyzed, and s.css was
\* discovered again from t.css.
C2_Witness ==
    /\ pc = "done"
    /\ pending = <<>>
    /\ {"http://h/s.css", "http://h/t.css"} \subseteq {dispatched[i].url : i \in DOMAIN dispatched}
    /\ Recorded("http://h/s.css") >= 2
    /\ Recorded("http://h/t.css") >= 1

\* C3: the drain loop takes the items in the order they were appended:
\* the items shifted so far are the first items appended, what is queued
\* are the items appended after them, and the retrievals were started in
\* the same order.
C3_FifoOrder ==
    /\ pushed = popped \o pending
    /\ fetched = [i \in DOMAIN popped |-> popped[i].url]

\* Two items were shifted, the second one appended while the first was
\* being analyzed, and items appended meanwhile wait behind.
C3_Witness ==
    /\ Len(popped) >= 2
    /\ popped[1].url = "http://h/s.css"
    /\ popped[2].url # "http://h/t.css"
    /\ \E i \in DOMAIN popped : i > 2 /\ popped[i].url = "http://h/t.css"
    /\ pending # <<>>

\* URLs enqueue may be called on: queued or retrieved ones, ones never seen,
\* and ones of the schemes that are not followed, in any case.
CandidateUrls ==
    {"http://h/s.css", "http://h/api", "http://h/new.js", "DATA:x", "about:blank",
     "JavaScript:0"}

Kinds == {"html", "css", "js", Undefined}

\* C4: enqueue(url, kind) leaves the ProcessedSet and the queue as they
\* are when recursion is off, when the URL is skippable or when it is in
\* the ProcessedSet already; otherwise it adds the URL to the ProcessedSet
\* and appends the one item (url, kind) at the tail of the queue.  The
\* request log is never changed, and the cache is not among the values
\* enqueue works on.
C4_EnqueueEffect ==
    \A url \in CandidateUrls, kind \in Kinds : \A R \in {enqueue(Locals, url, kind)} :
        /\ DOMAIN R = {"requests", "processed", "pending", "pushed"}
        /\ R.requests = requests
        /\ IF ~recursive \/ isSkippableUrl(url) \/ url \in processed
           THEN R.processed = processed /\ R.pending = pending
           ELSE /\ R.processed = processed \cup {url}
                /\ R.pending = Append(pending, Item(url, kind))

\* A run with recursion in which enqueue has appended items, two of them
\* wait in the queue, a URL of the ProcessedSet was discovered again and
\* appended once, and a candidate is new.
C4_Witness ==
    /\ recursive
    /\ Len(pending) >= 2
    /\ \E url \in processed \cap CandidateUrls :
           /\ Recorded(url) >= 2
           /\ Count(pushed, LAMBDA item : item.url = url) = 1
    /\ CandidateUrls \ processed # {}

\* The scheme of url, compared without regard to case, is one of data:,
\* javascript: and about:.
HasSkippedScheme(url) ==
    \E scheme \in {"data:", "javascript:", "about:"} :
        /\ Len(url) >= Len(scheme)
        /\ toLowerCase(SubSeq(url, 1, Len(scheme))) = scheme

\* The analyzer of kind ran on the content text retrieved from url.
Analyzed(url, text, kind) ==
    /\ \E i \in DOMAIN dispatched : dispatched[i] = Item(url, kind)
    /\ \E i \in DOMAIN outcomes :
           /\ outcomes[i].url = url
           /\ ~IsFailure(outcomes[i].outcome)
           /\ outcomes[i].outcome.text = text

\* C5: no URL of the schemes data:, javascript: and about: is ever in the
\* queue or in the ProcessedSet or retrieved, yet the ones discovered are in
\* the request log: the image DATA:x of the top-level markup, the frame
\* about:blank, the url(about:blank) of the top-level style sheet and the
\* url(JavaScript:0) of a retrieved one.
C5_SkippedSchemes ==
    /\ \A i \in DOMAIN pushed : ~HasSkippedScheme(pushed[i].url)
    /\ \A i \in DOMAIN pending : ~HasSkippedScheme(pending[i].url)
    /\ \A url \in processed : ~HasSkippedScheme(url)
    /\ \A i \in DOMAIN fetched : ~HasSkippedScheme(fetched[i])
    /\ (input = HtmlTop /\ pc \notin {"start", "failed"}) => Recorded("data:x") >= 1
    /\ (input = HtmlFrames /\ pc \notin {"start", "failed"}) => Recorded("about:blank") >= 1
    /\ (input = CssTop /\ pc # "start") => Recorded("about:blank") >= 1
    /\ Analyzed("http://h/api", CssApi, "css") => Recorded("javascript:0") >= 1

\* A run with recursion returned; it logged a javascript: URL found in a
\* retrieved style sheet and retrieved other URLs.
C5_Witness ==
    /\ recursive
    /\ pc = "done"
    /\ Analyzed("http://h/api", CssApi, "css")
    /\ \E i \in DOMAIN requests : HasSkippedScheme(requests[i].url)
    /\ fetched # <<>>

\* The content the retrieval of url delivered.
Retrieved(url) == resourceCache[url]

\* C6: an item shifted with a kind hint is handed to the analyzer of that
\* kind, whatever the content type, the extension of the URL and the text
\* say; an item without hint is handed to the analyzer of the kind its
\* content is classified as.
C6_HintWins ==
    \A i \in DOMAIN dispatched : \A j \in DOMAIN popped :
        popped[j].url = dispatched[i].url =>
            dispatched[i].kind =
                IF popped[j].kind # Undefined THEN popped[j].kind
                ELSE detectResourceKind(popped[j].url,
                                        Retrieved(popped[j].url).contentType,
                                        Retrieved(popped[j].url).text)

\* The script a.js, served as text/javascript, was shifted with the hint
\* css of the @import it was found in and handed to the style sheet
\* analyzer, where classification says js.
C6_Witness ==
    \E i \in DOMAIN dispatched : \E j \in DOMAIN popped :
        /\ popped[j] = Item("http://h/a.js", "css")
        /\ dispatched[i] = Item("http://h/a.js", "css")
        /\ detectResourceKind("http://h/a.js", Retrieved("http://h/a.js").contentType,
                              Retrieved("http://h/a.js").text) = "js"

\* The step in which the retrieval of the awaited item fails: the global
\* fetch is unavailable, throws or answers with a non-success status.
RetrievalFails ==
    /\ pc = "loading"
    /\ Len(outcomes') = Len(outcomes) + 1
    /\ IsFailure(outcomes'[Len(outcomes')].outcome)

\* The retrieval of some item has failed.
SomeRetrievalFailed == \E i \in DOMAIN outcomes : IsFailure(outcomes[i].outcome)

\* C7: when the retrieval of a queued URL fails, the load yields absent and
\* no error, the loop goes on with no record appended, nothing enqueued and
\* no analyzer run; the URL is retrieved that one time only; and the run
\* drains the remaining items and returns, unless a rendering environment
\* fails.
C7_RetrievalFailureSkipped ==
    /\ [][RetrievalFails =>
              /\ resourceCache' = CacheSet(resourceCache, next.url, Null)
              /\ pc' = "drain"
              /\ UNCHANGED <<requests, pending, processed, pushed, dispatched, doms>>]_vars
    /\ [](\A i \in DOMAIN outcomes :
              IsFailure(outcomes[i].outcome) =>
                  /\ Retrievals(outcomes[i].url) = 1
                  /\ Count(outcomes, LAMBDA o : o.url = outcomes[i].url) = 1)
    /\ ([](pc # "failed")) => [](SomeRetrievalFailed => <>(pc = "done"))

\* A run returned after a retrieval failed with a non-success status, one
\* was rejected and one found the global fetch unavailable; the items
\* behind the first failure were shifted, one of them analyzed.
C7_Witness ==
    /\ pc = "done"
    /\ \E i, j, k \in DOMAIN outcomes :
           /\ outcomes[i].outcome = Response(FALSE, "", Undefined)
           /\ "throws" \in DOMAIN outcomes[j].outcome
           /\ "unavailable" \in DOMAIN outcomes[k].outcome
    /\ \E i, j \in DOMAIN outcomes :
           /\ i < j
           /\ IsFailure(outcomes[i].outcome)
           /\ ~IsFailure(outcomes[j].outcome)
           /\ \E d \in DOMAIN dispatched : dispatched[d].url = outcomes[j].url

\* The step in which the awaited item has no kind hint and its content is
\* classified as unknown.
UnknownContent ==
    /\ pc = "loading"
    /\ pc' # "loading"
    /\ next.kind = Undefined
    /\ resourceCache'[next.url] # Null
    /\ detectResourceKind(next.url, resourceCache'[next.url].contentType,
                          resourceCache'[next.url].text) = Undefined

\* C8: an item without kind hint whose content is classified as unknown is
\* dropped: no analyzer runs, no record is appended, nothing is enqueued,
\* the request log stays as it is and the loop goes on.
C8_UnknownDropped ==
    [][UnknownContent =>
           /\ pc' = "drain"
           /\ UNCHANGED <<requests, pending, processed, pushed, dispatched, doms>>]_vars

\* The item http://h/api was shifted without hint, its JSON content was
\* classified as unknown, no analyzer ran on it, and the loop went on to
\* the item behind it and returned.
C8_Witness ==
    /\ pc = "done"
    /\ requests # <<>>
    /\ \E j \in DOMAIN popped :
           /\ popped[j] = Item("http://h/api", Undefined)
           /\ j < Len(popped)
    /\ Retrieved("http://h/api") = Content(JsonApi, "application/json")
    /\ \A i \in DOMAIN dispatched : dispatched[i].url # "http://h/api"

\* The step in which markup is to be analyzed, the top-level input or an
\* item handed to the markup analyzer, and no rendering environment comes
\* up for it.
EnvironmentFails ==
    /\ doms' = doms
    /\ \/ /\ pc = "start"
          /\ pc' # "start"
          /\ detectInputKind(input) = "html"
       \/ /\ pc = "loading"
          /\ Len(dispatched') = Len(dispatched) + 1
          /\ dispatched'[Len(dispatched')].kind = "html"

\* C9: when the rendering environment fails for the top-level input or for
\* an item handed to the markup analyzer, run() ends in an error: it is
\* rejected then and never returns a result.  Nothing but such a failure
\* rejects it, and the step of a failed retrieval leaves the loop running.
C9_EnvironmentFailureFatal ==
    [][/\ EnvironmentFails => pc' = "failed"
       /\ pc = "failed" => pc' = "failed"
       /\ (pc # "failed" /\ pc' = "failed") => EnvironmentFails
       /\ RetrievalFails => pc' = "drain"]_vars

\* A run was rejected when the environment failed for a retrieved markup
\* item, after it had logged requests and a retrieval had failed without
\* ending it.
C9_Witness ==
    /\ pc = "failed"
    /\ requests # <<>>
    /\ dispatched # <<>>
    /\ dispatched[Len(dispatched)].kind = "html"
    /\ Len(doms) < Count(dispatched, LAMBDA d : d.kind = "html") + 1
    /\ SomeRetrievalFailed

\* The locals of run() before any analysis.
EmptyLocals == [requests |-> <<>>, processed |-> {}, pending |-> <<>>, pushed |-> <<>>]

\* The log after the analysis of the top-level input alone, the requests
\* the scripts of its rendering environment issue later included.
TopLevelLog ==
    IF detectInputKind(input) = "html"
    THEN ForEach(analyzeHtml(EmptyLocals, input, Undefined), Dom(input, Undefined).calls,
                 interceptor).requests
    ELSE IF detectInputKind(input) = "css"
    THEN recordCssUrls(EmptyLocals, input, Undefined).requests
    ELSE analyzeJs(EmptyLocals, input, Undefined).requests

\* C10: with the recursion option false or omitted, the queue and the
\* ProcessedSet are empty in every state, nothing is retrieved or handed
\* to an analyzer, and the log holds records of the analysis of the
\* top-level input only.
C10_NoRecursion ==
    ~recursive =>
        /\ pending = <<>> /\ pushed = <<>> /\ popped = <<>>
        /\ processed = {}
        /\ fetched = <<>> /\ outcomes = <<>> /\ resourceCache = <<>>
        /\ dispatched = <<>>
        /\ Len(doms) <= 1
        /\ Len(requests) <= Len(TopLevelLog)
        /\ requests = SubSeq(TopLevelLog, 1, Len(requests))

\* A run without the recursion option returned the whole log of its
\* top-level markup, which names URLs a run with recursion retrieves.
C10_Witness ==
    /\ options = <<>>
    /\ pc = "done"
    /\ input = HtmlTop
    /\ requests = TopLevelLog
    /\ Recorded("http://h/s.css") >= 1
    /\ Recorded("http://h/api") >= 1

\* C11: the request log is append-only: in every step the log before is a
\* prefix of the log after, so no record is removed, moved or changed; a URL
\* found again gets another record.
C11_LogAppendOnly ==
    [][/\ Len(requests') >= Len(requests)
       /\ SubSeq(requests', 1, Len(requests)) = requests]_vars

\* The log grew over several steps of a run that returned, and it holds two
\* records of one URL with other records between them.
C11_Witness ==
    /\ pc = "done"
    /\ \E i, j, k \in DOMAIN requests :
           /\ i < j /\ j < k
           /\ requests[i].url = requests[k].url
           /\ requests[j].url # requests[i].url
    /\ Len(popped) >= 2

\* The top-level input is markup whose document has a link rel=stylesheet
\* with the href url.
TopLevelStylesheet(url) ==
    /\ detectInputKind(input) = "html"
    /\ \E D \in {RenderingEnvironment(input, AboutBlank)} :
           \E i \in DOMAIN D.elements :
               /\ D.elements[i].tag = "link"
               /\ getAttribute(D.elements[i], "rel") = "stylesheet"
               /\ getAttribute(D.elements[i], "href") = url

\* The retrieval of url delivered the content text.
Delivered(url, text) ==
    \E i \in DOMAIN outcomes :
        /\ outcomes[i].url = url
        /\ ~IsFailure(outcomes[i].outcome)
        /\ outcomes[i].outcome.text = text

\* C12: with recursion enabled, when the top-level markup has a link
\* rel=stylesheet with href S and the retrieval of S delivered a body that
\* contains url(p.png), the request list run() returns holds a record of S
\* with source resource and, behind it, a record of p.png resolved against
\* S with source css.
C12_StylesheetFollowed ==
    \A S \in {"http://h/s.css"} :
        (/\ recursive
         /\ pc = "done"
         /\ TopLevelStylesheet(S)
         /\ Delivered(S, CssS)) =>
            \E i, j \in DOMAIN requests :
                /\ i < j
                /\ requests[i] = Record(S, "resource")
                /\ requests[j] = Record(resolveUrl(S, "p.png"), "css")

\* The run on the markup with the link to s.css returned; s.css was
\* retrieved once, its body came, and p.png is in the log as
\* http://h/p.png.
C12_Witness ==
    /\ recursive
    /\ pc = "done"
    /\ TopLevelStylesheet("http://h/s.css")
    /\ Delivered("http://h/s.css", CssS)
    /\ Retrievals("http://h/s.css") = 1
    /\ Recorded("http://h/p.png") >= 1
    /\ includes(CssS, "url(p.png)")

\* URLs as a text may write them in a call or a url().
WrittenUrls == {"HTTP://h/api", "http://h/api", "http://h/s.css", "http://h/a.js",
                "HTTP://h/p.png", "about:blank", "x.js", "/api", "/f.html"}

\* The URLs U for which the top-level input contains fetch("U").
FetchCalls == {U \in WrittenUrls : includes(input, "fetch(\"" \o U \o "\")")}

\* The result of a run on an input classified as script has, for every
\* fetch("U") of the input, an entry with the url U as written and the
\* source fetch.
C13_FetchAsWritten ==
    (pc = "done" /\ detectInputKind(input) = "js") =>
        \A U \in FetchCalls : \E i \in DOMAIN requests : requests[i] = Record(U, "fetch")

\* C13: the result of a run on an input classified as script has, for every
\* fetch("U") of the input, an entry with source fetch whose url is U
\* resolved: the serialization of U when it parses as an absolute URL (the
\* scheme and the host in lower case), else U as written.
C13_FetchResolved ==
    (pc = "done" /\ detectInputKind(input) = "js") =>
        \A U \in FetchCalls :
            \E i \in DOMAIN requests : requests[i] = Record(resolveUrl(Undefined, U), "fetch")

\* The run on the script with fetch("HTTP://h/api") returned: the log has
\* the entry (http://h/api, fetch) and no entry with the URL as written.
C13_Witness ==
    /\ pc = "done"
    /\ detectInputKind(input) = "js"
    /\ "HTTP://h/api" \in FetchCalls
    /\ \E i \in DOMAIN requests : requests[i] = Record("http://h/api", "fetch")
    /\ Recorded("HTTP://h/api") = 0

\* The URLs U for which the top-level input contains url("U").
UrlCalls == {U \in WrittenUrls : includes(input, "url(\"" \o U \o "\")")}

\* The URLs U for which the top-level input contains @import "U";.
ImportCalls == {U \in WrittenUrls : includes(input, "@import \"" \o U \o "\";")}

\* The top-level input is classified as a style sheet and run() has
\* analyzed it.
CssInputAnalyzed == detectInputKind(input) = "css" /\ pc # "start"

\* What the claim says of @import "U"; and of the url() targets that are
\* not @import targets, with the URLs resolved: the import is recorded with
\* source css and, with recursion on and U not skippable, queued with the
\* hint css (nothing is in the ProcessedSet before the top-level analysis);
\* the analysis of the input queues no url() target.
CssImportsQueued ==
    /\ [](CssInputAnalyzed =>
              \A U \in ImportCalls : \A url \in {resolveUrl(Undefined, U)} :
                  /\ \E i \in DOMAIN requests : requests[i] = Record(url, "css")
                  /\ (recursive /\ ~isSkippableUrl(url)) =>
                         \E i \in DOMAIN pushed : pushed[i] = Item(url, "css"))
    /\ [][(pc = "start" /\ detectInputKind(input) = "css") =>
              \A U \in UrlCalls \ ImportCalls : \A i \in DOMAIN pushed' :
                  pushed'[i].url # resolveUrl(Undefined, U)]_vars

\* The result of a run on an input classified as a style sheet has, for
\* every url("U") of the input, an entry with the url U as written and the
\* source css; and the imports are recorded and queued, the other url()
\* targets recorded and not queued.
C14_CssAsWritten ==
    /\ [](CssInputAnalyzed =>
              \A U \in UrlCalls : \E i \in DOMAIN requests : requests[i] = Record(U, "css"))
    /\ CssImportsQueued

\* C14: the result of a run on an input classified as a style sheet has,
\* for every url("U") of the input, an entry with source css whose url is U
\* resolved (the serialization of U when it parses as an absolute URL, else
\* U as written); for @import "U"; U resolved is recorded with source css
\* and, with recursion on and U not skippable, queued with the hint css; a
\* url() target that is no @import target is recorded and not queued.
C14_CssResolved ==
    /\ [](CssInputAnalyzed =>
              \A U \in UrlCalls : \E i \in DOMAIN requests :
                  requests[i] = Record(resolveUrl(Undefined, U), "css"))
    /\ CssImportsQueued

\* The run with recursion on the style sheet with @import "http://h/a.js";
\* and url("HTTP://h/p.png") returned: a.js was queued with the hint css
\* and retrieved, p.png is in the log as http://h/p.png and was never
\* queued.
C14_Witness ==
    /\ recursive
    /\ pc = "done"
    /\ CssInputAnalyzed
    /\ "HTTP://h/p.png" \in UrlCalls \ ImportCalls
    /\ "http://h/a.js" \in ImportCalls
    /\ \E i \in DOMAIN requests : requests[i] = Record("http://h/p.png", "css")
    /\ Recorded("HTTP://h/p.png") = 0
    /\ popped # <<>> /\ popped[1] = Item("http://h/a.js", "css")
    /\ \A i \in DOMAIN pushed : pushed[i].url # "http://h/p.png"

\* The URLs U for which the top-level input contains <img src="U">.
ImgSrcs == {U \in WrittenUrls \cup {"DATA:x"} : includes(input, "<img src=\"" \o U \o "\">")}

\* C15: the request list of a run on markup with <img src="U"> has an entry
\* with source img whose url is U resolved against the URL of the document:
\* the record of the image pass of the harvest, made once the rendering
\* environment has come up.
C15_ImgRecorded ==
    (detectInputKind(input) = "html" /\ pc \notin {"start", "failed"}) =>
        \A U \in ImgSrcs :
            \E i \in DOMAIN requests : requests[i] = Record(resolveUrl(AboutBlank, U), "img")

\* The run on the markup with <img src="DATA:x"> returned; the log has the
\* entry (data:x, img), the URL in its serialized form.
C15_Witness ==
    /\ pc = "done"
    /\ detectInputKind(input) = "html"
    /\ "DATA:x" \in ImgSrcs
    /\ \E i \in DOMAIN requests : requests[i] = Record("data:x", "img")
    /\ Recorded("DATA:x") = 0

\* The URLs S for which the top-level input contains <script src="S">.
ScriptSrcs ==
    {S \in WrittenUrls : includes(input, "<script src=\"" \o S \o "\">")}

\* The URLs U for which the top-level input contains an inline script
\* that starts with the call fetch("U").
InlineFetches ==
    {U \in WrittenUrls : includes(input, "<script>fetch(\"" \o U \o "\")")}

OverrideKind ==
    IF "inputType" \in DOMAIN options THEN options.inputType ELSE detectInputKind(input)

\* The log after the analysis of the top-level input as a text of kind.
AnalyzedAs(kind) ==
    IF kind = "html" THEN analyzeHtml(EmptyLocals, input, Undefined).requests
    ELSE IF kind = "css" THEN recordCssUrls(EmptyLocals, input, Undefined).requests
    ELSE analyzeJs(EmptyLocals, input, Undefined).requests

\* C17: when the options supply an input-kind override K, the top-level
\* input is analyzed as kind K whatever its text looks like, and as the
\* detected kind only when no override is supplied: the step that starts
\* run() leaves the log of the analysis as that kind.
C17_OverrideDecides ==
    [][(pc = "start" /\ pc' \notin {"start", "failed"}) =>
           requests' = AnalyzedAs(OverrideKind)]_vars

\* How many of the requests the scripts of the top-level document issue
\* from later tasks the environment has reported so far: what a run leaves
\* to the environment.
LateReports ==
    IF doms = <<>> THEN 0
    ELSE Len(RenderingEnvironment(input, AboutBlank).async) - Len(doms[1].calls)

\* The request list of a run without recursion on each input, written out
\* record by record, for an environment that has reported late of its late
\* requests when run() returns.
ReturnedLog(late) ==
    CASE input = CssTop ->
            <<Record("http://h/a.js", "css"), Record("about:blank", "css"),
              Record("http://h/p.png", "css")>>
      [] input = JsTop ->
            <<Record("http://h/s.css", "resource"), Record("x.js", "resource"),
              Record("http://h/api", "fetch")>>
      [] input = HtmlTop ->
            <<Record("http://h/s.css", "resource"), Record("http://h/i.png", "unknown"),
              Record("data:x", "img"), Record("http://h/s.css", "resource")>>
            \o (IF late >= 1 THEN <<Record("http://h/api", "fetch")>> ELSE <<>>)
      [] input = HtmlFrames ->
            <<Record("http://h/api", "fetch"), Record("http://h/f.html", "resource"),
              Record("http://h/s.css", "resource"), Record("http://h/s.css", "resource"),
              Record("about:blank", "resource"), Record("http://h/f.html", "resource")>>

RequestSources == {"resource", "img", "css", "fetch", "xhr"}

\* C19: every record of the request log has a source that is one of
\* resource, img, css, fetch and xhr, the records of the requests reported
\* through the interception callback included.
C19_SourceTagged == \A i \in DOMAIN requests : requests[i].source \in RequestSources

InFlight == {url \in DOMAIN resourceCache : resourceCache[url] = Unsettled}

\* C21: the drain loop is sequential: at most one retrieval is in flight,
\* and then it is the one of the item the loop awaits; every retrieval
\* started but the one awaited has completed; and an item is shifted only
\* when the loop is at its head, with no retrieval in flight and the
\* retrieval and the analysis of the item before, settle wait included,
\* over.  So no two retrievals, of one URL or of two, are ever under way
\* together.
C21_Sequential ==
    /\ [](/\ Cardinality(InFlight) <= 1
          /\ InFlight # {} => (pc = "loading" /\ InFlight = {next.url})
          /\ Len(fetched) = Len(outcomes) + Cardinality(InFlight))
    /\ [][popped' # popped =>
              /\ pc = "drain"
              /\ InFlight = {}
              /\ Len(outcomes) = Len(fetched)
              /\ Len(dispatched) <= Len(popped)]_vars

\* The retrieval of the third item is in flight while items wait in the
\* queue; the retrievals of the two items before it are over.
C21_Witness ==
    /\ pc = "loading"
    /\ InFlight = {next.url}
    /\ Len(popped) = 3
    /\ Len(outcomes) = 2
    /\ pending # <<>>

\* The strings of a sequence.
Range(seq) == {seq[i] : i \in DOMAIN seq}

\* The style sheet texts recordCssUrls was called on so far: the top-level
\* input, when it is one, and the content of every item handed to the
\* style sheet analyzer.
AnalyzedCss ==
    (IF detectInputKind(input) = "css" /\ pc # "start" THEN {input} ELSE {})
    \cup {resourceCache[dispatched[i].url].text :
              i \in {j \in DOMAIN dispatched : dispatched[j].kind = "css"}}

\* The step in which the item awaited is handed to the style sheet
\* analyzer with the content text.
CssDispatched(text) ==
    /\ pc = "loading"
    /\ Len(dispatched') = Len(dispatched) + 1
    /\ dispatched'[Len(dispatched')] = Item(next.url, "css")
    /\ resourceCache'[next.url] # Null
    /\ resourceCache'[next.url].text = text

\* C22: extractCssDependencies partitions the references of a style
\* sheet: of every style sheet analyzed, no string is both in imports and
\* in urls, the target of an @import with the url() wrapper is in imports
\* only; and the analysis of the sheet that is the one statement
\* @import url(s.css); appends exactly one record.
C22_Partition ==
    /\ [](\A text \in AnalyzedCss : \A deps \in {extractCssDependencies(text)} :
              Range(deps.imports) \cap Range(deps.urls) = {})
    /\ [][CssDispatched(CssT) => Len(requests') = Len(requests) + 1]_vars

\* The script texts analyzeJs was called on so far: the top-level input,
\* when it is one, and the content of every item handed to the script
\* analyzer.
AnalyzedJs ==
    (IF detectInputKind(input) = "js" /\ pc # "start" THEN {input} ELSE {})
    \cup {resourceCache[dispatched[i].url].text :
              i \in {j \in DOMAIN dispatched : dispatched[j].kind = "js"}}

\* No string is twice in seq.
NoRepeat(seq) == \A i, j \in DOMAIN seq : seq[i] = seq[j] => i = j

\* The strings of seq are in the order in which they first occur in text.
InTextOrder(text, seq) ==
    \A i, j \in DOMAIN seq : i < j => indexOf(text, seq[i], 1) < indexOf(text, seq[j], 1)

\* C23: of every style sheet and every script analyzed, each sequence the
\* extractor returns has no string twice and lists its strings in the
\* order of their first occurrence in the text.
C23_DedupOrdered ==
    /\ \A text \in AnalyzedCss : \A deps \in {extractCssDependencies(text)} :
           \A seq \in {deps.imports, deps.urls} : NoRepeat(seq) /\ InTextOrder(text, seq)
    /\ \A text \in AnalyzedJs : \A deps \in {extractJsDependencies(text)} :
           \A seq \in {deps.imports, deps.importScripts, deps.fetches, deps.xhrs} :
               NoRepeat(seq) /\ InTextOrder(text, seq)

\* The settle wait of the analysis step that created environment i is over
\* (or, the environment being the last one created, run() is not in a
\* settle wait at all).
WindowElapsed(i) == ~(i = Len(doms) /\ pc \in {"settleTop", "settle"})

\* This step is the interception callback called for a request of
\* environment i.
Reports(i) == i \in DOMAIN doms /\ doms'[i].calls # doms[i].calls

HtmlDispatched(text) ==
    /\ pc = "loading"
    /\ pc' = "settle"
    /\ dispatched'[Len(dispatched')] = Item(next.url, "html")
    /\ resourceCache'[next.url] # Null
    /\ resourceCache'[next.url].text = text

\* The resolved hrefs of the link elements of the markup text at baseUrl
\* whose rel contains word and whose kind can be inferred from the URL.
HintedLinks(text, baseUrl, word) ==
    {resolveUrl(baseUrl, getAttribute(e, "href")) :
         e \in {d \in Range(RenderingEnvironment(text, baseUrl).elements) :
                    /\ d.tag = "link"
                    /\ includes(toLowerCase(getAttribute(d, "rel")), word)
                    /\ inferResourceKindFromUrl(
                           resolveUrl(baseUrl, getAttribute(d, "href"))) # Undefined}}

\* The step records href with source resource and calls enqueue on it with
\* the kind inferred: the URL is processed afterwards and, when it was not
\* before, queued with that kind.
RecordedAndEnqueued(href) ==
    /\ Count(requests', LAMBDA r : r = Record(href, "resource"))
           > Count(requests, LAMBDA r : r = Record(href, "resource"))
    /\ href \in processed'
    /\ href \notin processed => Item(href, inferResourceKindFromUrl(href)) \in Range(pending')

\* C25: when the markup of the frame document is harvested with recursion
\* enabled, the href of each of its link elements whose rel contains
\* preload or prefetch and whose kind can be inferred is recorded with
\* source resource and enqueued with that kind, rel=prefetch as rel=preload.
C25_PreloadPrefetch ==
    [][recursive /\ HtmlDispatched(HtmlFrame) =>
           /\ HintedLinks(HtmlFrame, next.url, "prefetch") # {}
           /\ \A href \in HintedLinks(HtmlFrame, next.url, "preload")
                              \cup HintedLinks(HtmlFrame, next.url, "prefetch") :
                  RecordedAndEnqueued(href)]_vars

\* C26: every URL in the pending queue is in the ProcessedSet, no URL is
\* twice in the pending queue, every URL with a cache entry is in the
\* ProcessedSet, and the ProcessedSet never shrinks.
C26_ProcessedCovers ==
    /\ [](/\ \A i \in DOMAIN pending : pending[i].url \in processed
          /\ \A i, j \in DOMAIN pending : pending[i].url = pending[j].url => i = j
          /\ DOMAIN resourceCache \subseteq processed)
    /\ [][processed \subseteq processed']_vars

\* Two items wait in the queue, a retrieval has been cached, and a URL
\* waiting in the queue has been recorded a second time without being
\* queued again.
C26_Witness ==
    /\ Len(pending) >= 2
    /\ DOMAIN resourceCache # {}
    /\ \E i \in DOMAIN pending : Recorded(pending[i].url) >= 2

\* The URLs of the records appended to the request log in this step.
NewlyRecorded == {requests'[i].url : i \in (Len(requests) + 1) .. Len(requests')}

\* C27: every URL in the ProcessedSet has a record with that same URL in
\* the request log, and a URL enters the ProcessedSet only in a step that
\* appends a record of it to the log.
C27_ProcessedRecorded ==
    /\ [](\A url \in processed : Recorded(url) >= 1)
    /\ [][Len(requests') >= Len(requests)
          /\ processed' \ processed \subseteq NewlyRecorded]_vars

\* The run is over with five URLs in the ProcessedSet, one of them found
\* by an interception callback, one in a style sheet and one in a script.
C27_Witness ==
    /\ pc = "done"
    /\ Cardinality(processed) >= 5
    /\ \E i \in DOMAIN requests : requests[i].source = "fetch" /\ requests[i].url \in processed
    /\ \E i \in DOMAIN requests : requests[i].source = "css" /\ requests[i].url \in processed
    /\ \E i \in DOMAIN dispatched : dispatched[i].kind = "js"

\* C28: the interception callback returns empty content for every request
\* an environment reports, so that no resource loader of a run passes a
\* load on to the real network fetch: the only retrievals of a run are the
\* calls of fetchResourceContent.
C28_NoNetworkFallback ==
    /\ [](\A i \in DOMAIN doms : doms[i].network = <<>>)
    /\ [][\A i \in DOMAIN doms :
              Reports(i) => interceptorReturn(Head(doms[i].calls)) = [buffer |-> ""]]_vars

\* The run is over: the resource loaders of two environments have reported
\* the loads of a frame, a script and a style sheet, a script has reported
\* a request from a later task, and the drain loop has retrieved three URLs.
C28_Witness ==
    /\ pc = "done"
    /\ input = HtmlFrames
    /\ Len(doms) >= 2
    /\ \A i \in DOMAIN doms : doms[i].calls = <<>>
    /\ Count(requests, LAMBDA r : r.source = "resource") >= 4
    /\ Count(requests, LAMBDA r : r.source = "xhr") >= 1
    /\ Len(fetched) >= 3
====
